---- MODULE Spec2Model ----
(***************************************************************************)
(* Raster-to-vector conversion pipeline of utils/image-to-svg.ts:          *)
(* decode -> removeBackground -> (cleanupGradientEdges) -> trimAlpha ->    *)
(* vectorizeImage (upscaleForTracing, extractUniqueColors, per colour      *)
(* createColorMask + potrace.trace, document composition).                 *)
(*                                                                         *)
(* A raster is a record [width, height, channels, data]; data is the       *)
(* row-major sequence of pixels, a pixel being the tuple of its channel    *)
(* bytes (<<r,g,b>> or <<r,g,b,a>>).  Pixel (x,y) is data[y*width+x+1].    *)
(***************************************************************************)
EXTENDS Integers, Sequences, FiniteSets, TLC

VARIABLES
    pc,             \* position of convertImageToSvg between its awaits
    source,         \* what the caller passed: a path or a buffer, and its state
    entered,        \* the pipeline stages entered so far, in order
    ident,          \* identity of the buffer object each local refers to
    input,          \* the decoded input raster (imageBuffer)
    options,        \* ImageToSvgOptions of this conversion
    detectorRan,    \* TRUE once detectBackgroundColor has been called
    detected,       \* what detectBackgroundColor returned (None: not run / null)
    noBackground,   \* result of removeBackground
    dominant,       \* what getDominantColor returned (None: not run / null)
    passLog,        \* per executed cleaner pass: its input and its outputData
    cleanedImage,   \* raster handed to trimAlpha
    trimmed,        \* result of trimAlpha
    upscaled,       \* result of upscaleForTracing (buffer, scale, original size)
    colors,         \* the palette of extractUniqueColors
    colorIdx,       \* number of palette colours already traced
    traces,         \* per traced colour: the colour, its mask, the tracer's answer
    paths,          \* collected path fragments
    tracedViewBox,  \* viewBox recorded so far
    result,         \* the returned document (None until returned)
    parked,         \* the suspended activation of a second conversion, if any
    cfg             \* the command-line action: options, file, merged config

vars == <<pc, source, entered, ident, input, options, detectorRan, detected, noBackground,
          dominant, passLog, cleanedImage, trimmed, upscaled, colors, colorIdx, traces, paths,
          tracedViewBox, result, parked, cfg>>

\* the locals of one convertImageToSvg activation
frame == <<pc, source, entered, ident, input, options, detectorRan, detected,
           noBackground, dominant, passLog, cleanedImage, trimmed, upscaled,
           colors, colorIdx, traces, paths, tracedViewBox, result>>

\* optional values (undefined / null in the source): <<>> or <<v>>
None == <<>>
Some(v) == <<v>>
IsSome(o) == o # <<>>
Get(o) == o[1]

\* the NaN that parseInt yields; no byte and no parsed number equals it
NaN == -1

--------------------------------------------------------------------------
(* Arithmetic helpers                                                      *)

Abs(x) == IF x < 0 THEN -x ELSE x
Min(a, b) == IF a < b THEN a ELSE b
Max(a, b) == IF a > b THEN a ELSE b

\* Math.round(s / n) for s >= 0, n > 0 (round half up)
RoundDiv(s, n) == (2 * s + n) \div (2 * n)

RECURSIVE SumRange(_, _, _, _)
\* sum of channel c of data[lo..hi]
SumRange(data, c, lo, hi) ==
    IF lo > hi THEN 0
    ELSE IF lo = hi THEN data[lo][c]
    ELSE LET mid == (lo + hi) \div 2
         IN  SumRange(data, c, lo, mid) + SumRange(data, c, mid + 1, hi)

--------------------------------------------------------------------------
(* Raster primitives of the imaging library, as the pipeline uses them     *)

Raster(w, h, ch, d) == [width |-> w, height |-> h, channels |-> ch, data |-> d]

\* sharp(...).ensureAlpha(): an opaque alpha channel is added when missing
EnsureAlpha(img) ==
    IF img.channels = 4 THEN img
    ELSE Raster(img.width, img.height, 4,
                [i \in 1..Len(img.data) |-> Append(img.data[i], 255)])

\* sharp(...).extract({left, top, width, height})
Extract(img, left, top, w, h) ==
    Raster(w, h, img.channels,
           [k \in 1..(w * h) |->
               img.data[(top + ((k - 1) \div w)) * img.width
                        + left + ((k - 1) % w) + 1]])

PixelAt(img, x, y) == img.data[y * img.width + x + 1]

--------------------------------------------------------------------------
(* Colours                                                                 *)

RGB(r, g, b) == [r |-> r, g |-> g, b |-> b]

HexValue(ch) ==
    CASE ch = "0" -> 0  [] ch = "1" -> 1  [] ch = "2" -> 2  [] ch = "3" -> 3
      [] ch = "4" -> 4  [] ch = "5" -> 5  [] ch = "6" -> 6  [] ch = "7" -> 7
      [] ch = "8" -> 8  [] ch = "9" -> 9
      [] ch \in {"a", "A"} -> 10 [] ch \in {"b", "B"} -> 11
      [] ch \in {"c", "C"} -> 12 [] ch \in {"d", "D"} -> 13
      [] ch \in {"e", "E"} -> 14 [] ch \in {"f", "F"} -> 15
      [] OTHER -> -1

RECURSIVE ParseDigits(_, _, _)
\* value of the longest prefix of s[i..] made of hex digits, continuing acc
ParseDigits(s, i, acc) ==
    IF i > Len(s) \/ HexValue(s[i]) < 0 THEN acc
    ELSE ParseDigits(s, i + 1, 16 * acc + HexValue(s[i]))

\* parseInt(s, 16): NaN when s does not start with a hex digit
ParseInt16(s) ==
    IF Len(s) = 0 \/ HexValue(s[1]) < 0 THEN NaN ELSE ParseDigits(s, 1, 0)

RECURSIVE FirstIndexOf(_, _, _)
FirstIndexOf(s, ch, i) ==
    IF i > Len(s) THEN 0
    ELSE IF s[i] = ch THEN i ELSE FirstIndexOf(s, ch, i + 1)

\* hex.replace('#', ''): removes the first '#' only
RemoveFirstHash(s) ==
    LET i == FirstIndexOf(s, "#", 1)
    IN  IF i = 0 THEN s
        ELSE SubSeq(s, 1, i - 1) \o SubSeq(s, i + 1, Len(s))

\* String.prototype.substring(a, b) on a character sequence
Substring(s, a, b) == SubSeq(s, Min(a, Len(s)) + 1, Min(b, Len(s)))

parseHexColor(hex) ==
    LET cleanHex == RemoveFirstHash(hex)
    IN  RGB(ParseInt16(Substring(cleanHex, 0, 2)),
            ParseInt16(Substring(cleanHex, 2, 4)),
            ParseInt16(Substring(cleanHex, 4, 6)))

\* Math.abs(a - b) <= tolerance; any comparison with NaN is false
ChannelClose(a, b, tolerance) ==
    /\ a # NaN
    /\ b # NaN
    /\ Abs(a - b) <= tolerance

\* variant: the tolerance bound is exclusive
colorsMatch_exclusive(c1, c2, tolerance) ==
    /\ ChannelClose(c1.r, c2.r, tolerance - 1)
    /\ ChannelClose(c1.g, c2.g, tolerance - 1)
    /\ ChannelClose(c1.b, c2.b, tolerance - 1)

colorsMatch(c1, c2, tolerance) ==
    /\ ChannelClose(c1.r, c2.r, tolerance)
    /\ ChannelClose(c1.g, c2.g, tolerance)
    /\ ChannelClose(c1.b, c2.b, tolerance)

PixelColor(p) == RGB(p[1], p[2], p[3])

--------------------------------------------------------------------------
(* Background detector                                                     *)

sampleRegionColor(img, left, top, w, h) ==
    LET region == Extract(EnsureAlpha(img), left, top, w, h)
        pixelCount == Len(region.data)
    IN  [r |-> RoundDiv(SumRange(region.data, 1, 1, pixelCount), pixelCount),
         g |-> RoundDiv(SumRange(region.data, 2, 1, pixelCount), pixelCount),
         b |-> RoundDiv(SumRange(region.data, 3, 1, pixelCount), pixelCount),
         a |-> RoundDiv(SumRange(region.data, 4, 1, pixelCount), pixelCount)]

OpaqueThreshold == 128
DetectTolerance == 30
MaxSample == 10
SampleDivisor == 10
CenterDivisor == 4

sampleSizeOf(img) ==
    Min(MaxSample, Min(img.width, img.height) \div SampleDivisor)

\* the four corner sample colours, in the order the code samples them
cornerColorsOf(img) ==
    LET sampleSize == sampleSizeOf(img)
        corners == << <<0, 0>>,
                      <<img.width - sampleSize, 0>>,
                      <<0, img.height - sampleSize>>,
                      <<img.width - sampleSize, img.height - sampleSize>> >>
    IN  [i \in 1..4 |->
            sampleRegionColor(img, Max(0, corners[i][1]), Max(0, corners[i][2]),
                              Min(sampleSize, img.width),
                              Min(sampleSize, img.height))]

centerColorOf(img) ==
    LET sampleSize == sampleSizeOf(img)
        centerSize == Min(sampleSize * 2,
                          Min(img.width, img.height) \div CenterDivisor)
        centerLeft == (img.width - centerSize) \div 2
        centerTop == (img.height - centerSize) \div 2
    IN  sampleRegionColor(img, centerLeft, centerTop, centerSize, centerSize)

\* cornerColors.every(c => colorsMatch(c, baseColor, tolerance))
allCornersMatch(cornerColors) ==
    \A i \in 1..4 : colorsMatch(cornerColors[i], cornerColors[1], DetectTolerance)

avgCornerColorOf(cc) ==
    RGB(RoundDiv(cc[1].r + cc[2].r + cc[3].r + cc[4].r, 4),
        RoundDiv(cc[1].g + cc[2].g + cc[3].g + cc[4].g, 4),
        RoundDiv(cc[1].b + cc[2].b + cc[3].b + cc[4].b, 4))

\* variant: only fully transparent corners count as transparent
cornersTransparent_onlyZero(cc) ==
    cc[1].a + cc[2].a + cc[3].a + cc[4].a = 0

\* avgAlpha = (sum of the four corner alphas) / 4 < 128
cornersTransparent(cc) ==
    cc[1].a + cc[2].a + cc[3].a + cc[4].a < 4 * OpaqueThreshold

\* variant: the centre is compared with a tolerance of 20
centerMatchesCorners_tight(img, cc) ==
    colorsMatch(centerColorOf(img), avgCornerColorOf(cc), DetectTolerance - 10)

\* variant: the centre safeguard is missing
centerMatchesCorners_unchecked(img, cc) == FALSE

\* colorsMatch(centerColor, avgCornerColor, tolerance)
centerMatchesCorners(img, cc) ==
    colorsMatch(centerColorOf(img), avgCornerColorOf(cc), DetectTolerance)

detectBackgroundColor(img) ==
    IF img.width = 0 \/ img.height = 0 THEN None
    ELSE IF sampleSizeOf(img) < 2 THEN None
    ELSE LET cc == cornerColorsOf(img)
         IN  IF cornersTransparent(cc) THEN None
             ELSE IF ~allCornersMatch(cc) THEN None
             ELSE IF centerMatchesCorners(img, cc) THEN None
             ELSE Some(avgCornerColorOf(cc))

--------------------------------------------------------------------------
(* Background remover                                                      *)

DefaultColorTolerance == 30

\* const { colorTolerance = 30 } = options
removalToleranceOf(opts) ==
    IF IsSome(opts.colorTolerance) THEN Get(opts.colorTolerance)
    ELSE DefaultColorTolerance

\* if (options.backgroundColor): undefined and the empty string are falsy
hasExplicitBackground(opts) ==
    IsSome(opts.backgroundColor) /\ Len(Get(opts.backgroundColor)) > 0

\* variant: kept pixels are written back with R and B exchanged
clearMatching_swapped(img, bgColor, tolerance) ==
    LET rgba == EnsureAlpha(img)
    IN  Raster(rgba.width, rgba.height, 4,
               [i \in 1..Len(rgba.data) |->
                   IF colorsMatch(PixelColor(rgba.data[i]), bgColor, tolerance)
                   THEN <<0, 0, 0, 0>>
                   ELSE <<rgba.data[i][3], rgba.data[i][2], rgba.data[i][1],
                          rgba.data[i][4]>>])

\* the pixel loop of removeBackground over the RGBA data
clearMatching(img, bgColor, tolerance) ==
    LET rgba == EnsureAlpha(img)
    IN  Raster(rgba.width, rgba.height, 4,
               [i \in 1..Len(rgba.data) |->
                   IF colorsMatch(PixelColor(rgba.data[i]), bgColor, tolerance)
                   THEN <<0, 0, 0, 0>>
                   ELSE rgba.data[i]])

\* variant: the detector runs first and the explicit colour is only used
\* when it finds nothing
removeBackground_detectFirst(img, opts) ==
    LET d == detectBackgroundColor(img)
    IN  IF IsSome(d)
        THEN [ran |-> TRUE, detected |-> d,
              out |-> clearMatching(img, Get(d), removalToleranceOf(opts))]
        ELSE IF hasExplicitBackground(opts)
        THEN [ran |-> TRUE, detected |-> d,
              out |-> clearMatching(img, parseHexColor(Get(opts.backgroundColor)),
                                    removalToleranceOf(opts))]
        ELSE [ran |-> TRUE, detected |-> d, out |-> EnsureAlpha(img)]

\* removeBackground: [ran, detected, out]
removeBackground(img, opts) ==
    IF hasExplicitBackground(opts)
    THEN [ran |-> FALSE, detected |-> None,
          out |-> clearMatching(img, parseHexColor(Get(opts.backgroundColor)),
                                removalToleranceOf(opts))]
    ELSE LET d == detectBackgroundColor(img)
         IN  IF ~IsSome(d)
             THEN [ran |-> TRUE, detected |-> d, out |-> EnsureAlpha(img)]
             ELSE [ran |-> TRUE, detected |-> d,
                   out |-> clearMatching(img, Get(d), removalToleranceOf(opts))]

--------------------------------------------------------------------------
(* Alpha trimmer                                                           *)

TrimMargin == 2

SetMin(S) == CHOOSE m \in S : \A n \in S : m <= n
SetMax(S) == CHOOSE m \in S : \A n \in S : m >= n

\* columns / rows holding a pixel with alpha > 0
contentXs(img) ==
    LET rgba == EnsureAlpha(img)
    IN  {x \in 0..(img.width - 1) :
            \E y \in 0..(img.height - 1) : PixelAt(rgba, x, y)[4] > 0}
contentYs(img) ==
    LET rgba == EnsureAlpha(img)
    IN  {y \in 0..(img.height - 1) :
            \E x \in 0..(img.width - 1) : PixelAt(rgba, x, y)[4] > 0}

\* the bounding box after the scan: minX/minY start at width/height, maxX/maxY at 0
boundingBox(img) ==
    LET xs == contentXs(img)
        ys == contentYs(img)
    IN  [minX |-> IF xs = {} THEN img.width ELSE SetMin(xs),
         minY |-> IF ys = {} THEN img.height ELSE SetMin(ys),
         maxX |-> IF xs = {} THEN 0 ELSE SetMax(xs),
         maxY |-> IF ys = {} THEN 0 ELSE SetMax(ys)]

\* if (minX >= maxX || minY >= maxY) return imageBuffer
trimReturnsInput(box) == box.minX >= box.maxX \/ box.minY >= box.maxY

\* Math.max(0, min - margin)
extractStart(lo) == Max(0, lo - TrimMargin)

\* variant: the extent is measured to the far edge of the content instead
\* of being the content's span
extractSize_toFarEdge(size, start, lo, hi) ==
    Min(size - start, hi + 1 + TrimMargin)

\* Math.min(size - start, max - min + 1 + margin * 2)
extractSize(size, start, lo, hi) ==
    Min(size - start, hi - lo + 1 + TrimMargin * 2)

trimRect(img) ==
    LET box == boundingBox(img)
        extractLeft == extractStart(box.minX)
        extractTop == extractStart(box.minY)
    IN  [left |-> extractLeft,
         top |-> extractTop,
         width |-> extractSize(img.width, extractLeft, box.minX, box.maxX),
         height |-> extractSize(img.height, extractTop, box.minY, box.maxY)]

trimAlpha(img) ==
    IF trimReturnsInput(boundingBox(img)) THEN img
    ELSE LET rect == trimRect(img)
         IN  Extract(img, rect.left, rect.top, rect.width, rect.height)

--------------------------------------------------------------------------
(* Upscaler.  A scale factor is the rational [num, den] (parseFloat).      *)

MaxDimension == 4000
DefaultUpscale == 2

Scale(n, d) == [num |-> n, den |-> d]

\* sharp(...).resize({width, height, kernel}): the output has the requested
\* size and every output pixel is the source pixel at the position it maps
\* to; the blending the library's kernel does between neighbouring source
\* pixels is not represented
Resize(img, w2, h2) ==
    Raster(w2, h2, img.channels,
           [k \in 1..(w2 * h2) |->
               PixelAt(img, (((k - 1) % w2) * img.width) \div w2,
                            (((k - 1) \div w2) * img.height) \div h2)])

\* variant: the factor is never limited
effectiveScaleOf_uncapped(img, scaleFactor) == scaleFactor

\* effectiveScale: the factor, or maxDimension / currentMax when
\* currentMax * scaleFactor > maxDimension
effectiveScaleOf(img, scaleFactor) ==
    LET currentMax == Max(img.width, img.height)
    IN  IF currentMax * scaleFactor.num > MaxDimension * scaleFactor.den
        THEN Scale(MaxDimension, currentMax)
        ELSE scaleFactor

\* upscaleForTracing: [buffer, scale, originalWidth, originalHeight]
upscaleForTracing(img, scaleFactor) ==
    IF img.width = 0 \/ img.height = 0
    THEN [buffer |-> img, scale |-> Scale(1, 1),
          originalWidth |-> img.width, originalHeight |-> img.height]
    ELSE LET eff == effectiveScaleOf(img, scaleFactor)
         IN  IF eff.num <= eff.den
             THEN [buffer |-> img, scale |-> Scale(1, 1),
                   originalWidth |-> img.width, originalHeight |-> img.height]
             ELSE [buffer |-> Resize(img, RoundDiv(img.width * eff.num, eff.den),
                                     RoundDiv(img.height * eff.num, eff.den)),
                   scale |-> eff,
                   originalWidth |-> img.width, originalHeight |-> img.height]

--------------------------------------------------------------------------
(* Unique colour extractor and colour mask builder                         *)

DefaultPaletteTolerance == 20

\* variant: transparent pixels are counted too
opaqueIndices_all(rgba) == 1..Len(rgba.data)

\* indices of the pixels counted by the histogram (alpha >= 128)
opaqueIndices(rgba) ==
    {i \in 1..Len(rgba.data) : rgba.data[i][4] >= OpaqueThreshold}

RECURSIVE SortByCount(_, _, _)
\* [...colorCounts.values()].sort((a, b) => b.count - a.count): descending
\* count, insertion (first occurrence) order among equal counts
SortByCount(S, count, first) ==
    IF S = {} THEN <<>>
    ELSE LET top == CHOOSE c \in S : \A d \in S \ {c} :
                        \/ count[c] > count[d]
                        \/ count[c] = count[d] /\ first[c] < first[d]
         IN  <<top>> \o SortByCount(S \ {top}, count, first)

sortedColorsOf(img) ==
    LET rgba == EnsureAlpha(img)
        idx == opaqueIndices(rgba)
        cols == {PixelColor(rgba.data[i]) : i \in idx}
        count == [c \in cols |->
                     Cardinality({i \in idx : PixelColor(rgba.data[i]) = c})]
        first == [c \in cols |->
                     SetMin({i \in idx : PixelColor(rgba.data[i]) = c})]
    IN  SortByCount(cols, count, first)

RECURSIVE GroupSimilar_lastOnly(_, _, _, _)
\* variant: a colour is compared with the last pushed colour only
GroupSimilar_lastOnly(sorted, i, uniqueColors, tolerance) ==
    IF i > Len(sorted) THEN uniqueColors
    ELSE IF /\ Len(uniqueColors) > 0
            /\ colorsMatch(sorted[i], uniqueColors[Len(uniqueColors)], tolerance)
         THEN GroupSimilar_lastOnly(sorted, i + 1, uniqueColors, tolerance)
         ELSE GroupSimilar_lastOnly(sorted, i + 1,
                                    Append(uniqueColors, sorted[i]), tolerance)

RECURSIVE GroupSimilar(_, _, _, _)
\* the greedy loop: a colour is pushed unless it matches one already pushed
GroupSimilar(sorted, i, uniqueColors, tolerance) ==
    IF i > Len(sorted) THEN uniqueColors
    ELSE IF \E j \in 1..Len(uniqueColors) :
                colorsMatch(sorted[i], uniqueColors[j], tolerance)
         THEN GroupSimilar(sorted, i + 1, uniqueColors, tolerance)
         ELSE GroupSimilar(sorted, i + 1, Append(uniqueColors, sorted[i]),
                           tolerance)

extractUniqueColors(img, tolerance) ==
    GroupSimilar(sortedColorsOf(img), 1, <<>>, tolerance)

\* variant: the alpha test is missing
createColorMask_anyAlpha(img, targetColor, tolerance) ==
    LET rgba == EnsureAlpha(img)
    IN  Raster(rgba.width, rgba.height, 1,
               [i \in 1..Len(rgba.data) |->
                   IF colorsMatch(PixelColor(rgba.data[i]), targetColor,
                                  tolerance)
                   THEN <<0>>
                   ELSE <<255>>])

\* variant: only the exact target colour is marked
createColorMask_exact(img, targetColor, tolerance) ==
    LET rgba == EnsureAlpha(img)
    IN  Raster(rgba.width, rgba.height, 1,
               [i \in 1..Len(rgba.data) |->
                   IF /\ rgba.data[i][4] >= OpaqueThreshold
                      /\ PixelColor(rgba.data[i]) = targetColor
                   THEN <<0>>
                   ELSE <<255>>])

createColorMask(img, targetColor, tolerance) ==
    LET rgba == EnsureAlpha(img)
    IN  Raster(rgba.width, rgba.height, 1,
               [i \in 1..Len(rgba.data) |->
                   IF /\ rgba.data[i][4] >= OpaqueThreshold
                      /\ colorsMatch(PixelColor(rgba.data[i]), targetColor,
                                     tolerance)
                   THEN <<0>>
                   ELSE <<255>>])

HexDigits == <<"0", "1", "2", "3", "4", "5", "6", "7",
               "8", "9", "a", "b", "c", "d", "e", "f">>

RECURSIVE ToString16(_)
\* n.toString(16) for n >= 0
ToString16(n) ==
    IF n < 16 THEN <<HexDigits[n + 1]>>
    ELSE Append(ToString16(n \div 16), HexDigits[(n % 16) + 1])

\* variant: the two-digit padding is missing
toHex_unpadded(n) == ToString16(n)

\* n.toString(16).padStart(2, '0')
toHex(n) ==
    LET t == ToString16(n) IN IF Len(t) < 2 THEN <<"0">> \o t ELSE t

rgbToHex(color) == <<"#">> \o toHex(color.r) \o toHex(color.g) \o toHex(color.b)

--------------------------------------------------------------------------
(* Gradient edge cleaner                                                   *)

QuantStep == 8
WashedMin == 20
WashedMax == 150
NeighborLimit == 4

\* Math.round(v / 8) * 8
Quantize(v) == ((2 * v + QuantStep) \div (2 * QuantStep)) * QuantStep

\* getDominantColor: the most frequent quantised colour among the pixels
\* with alpha >= 128 (the first met among equally frequent ones), or null
getDominantColor(img) ==
    LET rgba == EnsureAlpha(img)
        idx == {i \in 1..Len(rgba.data) : rgba.data[i][4] >= OpaqueThreshold}
        q(i) == RGB(Quantize(rgba.data[i][1]), Quantize(rgba.data[i][2]),
                    Quantize(rgba.data[i][3]))
        cols == {q(i) : i \in idx}
        count == [c \in cols |-> Cardinality({i \in idx : q(i) = c})]
        first == [c \in cols |-> SetMin({i \in idx : q(i) = c})]
    IN  IF cols = {} THEN None ELSE Some(SortByCount(cols, count, first)[1])

neighbors == ((-1..1) \X (-1..1)) \ {<<0, 0>>}

\* number of the eight neighbours inside the raster with alpha < 128
transparentNeighborCount(rgba, x, y) ==
    Cardinality({n \in neighbors :
        /\ x + n[1] >= 0 /\ x + n[1] < rgba.width
        /\ y + n[2] >= 0 /\ y + n[2] < rgba.height
        /\ PixelAt(rgba, x + n[1], y + n[2])[4] < OpaqueThreshold})

\* intensityDiff > 20 && intensityDiff < 150, the intensities being the
\* channel sums divided by 3 (compared here as sums, exactly)
isWashedOut(pixelColor, dominantColor) ==
    LET diff == Abs((pixelColor.r + pixelColor.g + pixelColor.b)
                    - (dominantColor.r + dominantColor.g + dominantColor.b))
    IN  diff > 3 * WashedMin /\ diff < 3 * WashedMax

\* (rRatioDiff + gRatioDiff + bRatioDiff) < 0.3, the ratios being each
\* channel over the channel sum (|| 1), compared here cross-multiplied
isSimilarHue(pixelColor, dominantColor) ==
    LET ds == dominantColor.r + dominantColor.g + dominantColor.b
        ps == pixelColor.r + pixelColor.g + pixelColor.b
        dominantTotal == IF ds = 0 THEN 1 ELSE ds
        pixelTotal == IF ps = 0 THEN 1 ELSE ps
    IN  10 * (Abs(dominantColor.r * pixelTotal - pixelColor.r * dominantTotal)
              + Abs(dominantColor.g * pixelTotal - pixelColor.g * dominantTotal)
              + Abs(dominantColor.b * pixelTotal - pixelColor.b * dominantTotal))
            < 3 * dominantTotal * pixelTotal

\* variant: pixels of the dominant colour are not spared
removesPixel_nearDominantToo(rgba, x, y, dominantColor, gradientTolerance) ==
    LET pixelColor == PixelColor(PixelAt(rgba, x, y))
        count == transparentNeighborCount(rgba, x, y)
    IN  /\ PixelAt(rgba, x, y)[4] >= OpaqueThreshold
        /\ count > 0
        /\ \/ isWashedOut(pixelColor, dominantColor)
              /\ isSimilarHue(pixelColor, dominantColor)
           \/ count >= NeighborLimit

\* whether a pass clears the pixel at (x, y)
removesPixel(rgba, x, y, dominantColor, gradientTolerance) ==
    LET pixelColor == PixelColor(PixelAt(rgba, x, y))
        count == transparentNeighborCount(rgba, x, y)
    IN  /\ PixelAt(rgba, x, y)[4] >= OpaqueThreshold
        /\ count > 0
        /\ ~colorsMatch(pixelColor, dominantColor, gradientTolerance)
        /\ \/ isWashedOut(pixelColor, dominantColor)
              /\ isSimilarHue(pixelColor, dominantColor)
           \/ count >= NeighborLimit

RECURSIVE ScanInPlace(_, _, _, _)
ScanInPlace(rgba, k, dominantColor, gradientTolerance) ==
    IF k > Len(rgba.data) THEN rgba
    ELSE ScanInPlace(
             IF removesPixel(rgba, (k - 1) % rgba.width,
                             (k - 1) \div rgba.width, dominantColor,
                             gradientTolerance)
             THEN [rgba EXCEPT !.data[k] = <<0, 0, 0, 0>>]
             ELSE rgba,
             k + 1, dominantColor, gradientTolerance)

\* variant: the pass writes into the raster it is reading
cleanupPass_inPlace(rgba, dominantColor, gradientTolerance) ==
    ScanInPlace(rgba, 1, dominantColor, gradientTolerance)

\* one pass: outputData, decided for every pixel on the pass's input
cleanupPass(rgba, dominantColor, gradientTolerance) ==
    Raster(rgba.width, rgba.height, 4,
           [k \in 1..Len(rgba.data) |->
               IF removesPixel(rgba, (k - 1) % rgba.width,
                               (k - 1) \div rgba.width, dominantColor,
                               gradientTolerance)
               THEN <<0, 0, 0, 0>>
               ELSE rgba.data[k]])

RECURSIVE cleanupLoop(_, _, _, _, _)
\* the pass loop: stops after `passes` passes or at a pass that removes
\* nothing, whose output is discarded
cleanupLoop(currentBuffer, pass, passes, dominantColor, gradientTolerance) ==
    IF pass >= passes THEN currentBuffer
    ELSE LET rgba == EnsureAlpha(currentBuffer)
             out == cleanupPass(rgba, dominantColor, gradientTolerance)
         IN  IF out = rgba THEN currentBuffer
             ELSE cleanupLoop(out, pass + 1, passes, dominantColor,
                              gradientTolerance)

cleanupGradientEdges(img, passes, gradientTolerance) ==
    LET dominantColor == getDominantColor(img)
    IN  IF ~IsSome(dominantColor) THEN img
        ELSE cleanupLoop(img, 0, passes, Get(dominantColor), gradientTolerance)

RECURSIVE cleanupLog(_, _, _, _, _)
\* the passes the loop executes, each with the raster it read (data) and
\* the raster it wrote (outputData), the pass that removes nothing included
cleanupLog(currentBuffer, pass, passes, dominantColor, gradientTolerance) ==
    IF pass >= passes THEN <<>>
    ELSE LET rgba == EnsureAlpha(currentBuffer)
             out == cleanupPass(rgba, dominantColor, gradientTolerance)
         IN  <<[before |-> rgba, after |-> out]>>
             \o (IF out = rgba THEN <<>>
                 ELSE cleanupLog(out, pass + 1, passes, dominantColor,
                                 gradientTolerance))

cleanupPassLog(img, passes, gradientTolerance) ==
    LET dominantColor == getDominantColor(img)
    IN  IF ~IsSome(dominantColor) THEN <<>>
        ELSE cleanupLog(img, 0, passes, Get(dominantColor), gradientTolerance)

GradientBase == 30
GradientStep == 5

\* variant: one pass per level
cleanupPassesOf_perLevel(opts) == Get(opts.gradientCleanup)

\* passes: Math.ceil(options.gradientCleanup / 2)
cleanupPassesOf(opts) == (Get(opts.gradientCleanup) + 1) \div 2

\* gradientTolerance: 30 + options.gradientCleanup * 5
gradientToleranceOf(opts) ==
    GradientBase + Get(opts.gradientCleanup) * GradientStep
--------------------------------------------------------------------------
(* Tracing capability (potrace) and what the orchestrator reads from it    *)

\* An SVG text returned by the tracer, reduced to what the two regular
\* expressions read: the d attribute of its path and its viewBox.
Svg(d, vb) == [kind |-> "svg", d |-> d, viewBox |-> vb]
TraceError == [kind |-> "error", d |-> <<>>, viewBox |-> None]

PathText == <<"M", "0", " ", "0", "z">>
BlankText == <<" ">>

\* what potrace.trace may answer for a mask
TraceOutcomes(mask) ==
    {TraceError,
     Svg(PathText, Some(<<mask.width, mask.height>>)),
     Svg(PathText, None),
     Svg(BlankText, Some(<<mask.width, mask.height>>)),
     Svg(<<>>, Some(<<mask.width, mask.height>>))}

\* svg.match(/<path[^>]*\sd="([^"]+)"/): null when d is empty
extractPathFromSvg(svg) == IF Len(svg.d) = 0 THEN None ELSE Some(svg.d)

extractViewBox(svg) == svg.viewBox

\* pathData && pathData.trim()
hasPathData(pathData) ==
    /\ IsSome(pathData)
    /\ \E i \in 1..Len(Get(pathData)) : Get(pathData)[i] # " "

\* vectorizeImage: colorTolerance = 20, upscale = 2 when undefined
paletteToleranceOf(opts) ==
    IF IsSome(opts.colorTolerance) THEN Get(opts.colorTolerance)
    ELSE DefaultPaletteTolerance

upscaleOf(opts) ==
    IF IsSome(opts.upscale) THEN Get(opts.upscale) ELSE Scale(DefaultUpscale, 1)

\* variant: level 0 counts as a level
cleanupEnabled_fromZero(opts) ==
    IsSome(opts.gradientCleanup) /\ Get(opts.gradientCleanup) >= 0

\* options.gradientCleanup && options.gradientCleanup > 0
cleanupEnabled(opts) ==
    IsSome(opts.gradientCleanup) /\ Get(opts.gradientCleanup) > 0

\* variant: a rejected trace is taken for an answer without a path
traceFailed_swallowed(svg) == FALSE

\* traceAsync: if (err) reject(err)
traceFailed(svg) == svg.kind = "error"

\* variant: the fragment is put in front of the collected ones
pushPath_front(ps, color, d) == <<[color |-> rgbToHex(color), d |-> d]>> \o ps

\* paths.push({ color: rgbToHex(color), d: pathData })
pushPath(ps, color, d) == Append(ps, [color |-> rgbToHex(color), d |-> d])

\* if (!tracedViewBox) tracedViewBox = extractViewBox(svg)
recordViewBox(current, svg) ==
    IF ~IsSome(current) THEN extractViewBox(svg) ELSE current

\* variant: the viewBox is the declared size
EmptyDocument_noViewBox(w, h) ==
    [width |-> w, height |-> h, viewBox |-> <<0, 0>>, paths |-> <<>>,
     version |-> FALSE]

\* the empty document of vectorizeWithColors
EmptyDocument(w, h) ==
    [width |-> w, height |-> h, viewBox |-> <<w, h>>, paths |-> <<>>,
     version |-> FALSE]

\* variant: the viewBox is the declared size, not the traced one
ComposedDocument_declaredViewBox(w, h, vb, ps) ==
    [width |-> w, height |-> h, viewBox |-> <<w, h>>, paths |-> ps,
     version |-> TRUE]

\* the composed document
ComposedDocument(w, h, vb, ps) ==
    [width |-> w, height |-> h, viewBox |-> vb, paths |-> ps, version |-> TRUE]

\* an object that none of the locals refers to yet
NewObject(ids) ==
    1 + Max(ids.imageBuffer, Max(ids.noBackground, Max(ids.cleanedImage,
            Max(ids.trimmed, ids.processBuffer))))

\* cleanupGradientEdges returns imageBuffer itself: no dominant colour, or
\* currentBuffer was never reassigned
cleanupReturnsInput(img, passes, gradientTolerance) ==
    LET log == cleanupPassLog(img, passes, gradientTolerance)
    IN  log = <<>> \/ log[1].after = log[1].before

\* upscaleForTracing returns imageBuffer itself
upscaleReturnsInput(img, scaleFactor) ==
    \/ img.width = 0 \/ img.height = 0
    \/ LET eff == effectiveScaleOf(img, scaleFactor)
       IN  eff.num <= eff.den

NoRaster == Raster(0, 0, 0, <<>>)
NoUpscale == [buffer |-> NoRaster, scale |-> Scale(1, 1),
              originalWidth |-> 0, originalHeight |-> 0]

--------------------------------------------------------------------------
(* Inputs: rasters and options the conversions are started with            *)

MaxSide == 8        \* longer side of the sparse rasters
MaxSeeds == 2       \* pixels set in a sparse raster

White == <<255, 255, 255, 255>>
Black == <<0, 0, 0, 255>>
Red == <<255, 0, 0, 255>>
Clear == <<0, 0, 0, 0>>
Faint == <<40, 40, 40, 60>>
FaintLight == <<200, 200, 200, 60>>
Gray(v) == <<v, v, v, 255>>

FlatImage(w, h, p) == Raster(w, h, 4, [i \in 1..(w * h) |-> p])

\* a centred side x side square of fg on bg
SquareImage(w, h, side, bg, fg) ==
    LET x0 == (w - side) \div 2
        y0 == (h - side) \div 2
    IN  Raster(w, h, 4,
               [i \in 1..(w * h) |->
                   LET x == (i - 1) % w
                       y == (i - 1) \div w
                   IN  IF /\ x >= x0 /\ x < x0 + side
                          /\ y >= y0 /\ y < y0 + side
                       THEN fg ELSE bg])

\* four corner blocks (a quarter of the side each), a centre block (the
\* middle half) and a fill everywhere else
BlockImage(side, c, center, fill) ==
    LET q == side \div 4
    IN  Raster(side, side, 4,
               [i \in 1..(side * side) |->
                   LET x == (i - 1) % side
                       y == (i - 1) \div side
                   IN       IF x < q /\ y < q THEN c[1]
                       ELSE IF x >= side - q /\ y < q THEN c[2]
                       ELSE IF x < q /\ y >= side - q THEN c[3]
                       ELSE IF x >= side - q /\ y >= side - q THEN c[4]
                       ELSE IF /\ x >= q /\ x < side - q
                               /\ y >= q /\ y < side - q THEN center
                       ELSE fill])

\* the raster with its first pixel replaced
WithSpeck(img, p) == [img EXCEPT !.data[1] = p]

\* transparent raster with the pixels at the seed indices set to p
SeedImage(w, h, seeds, p) ==
    Raster(w, h, 4, [i \in 1..(w * h) |-> IF i \in seeds THEN p ELSE Clear])

\* the same raster decoded without an alpha channel
WithoutAlpha(img) ==
    Raster(img.width, img.height, 3,
           [i \in 1..Len(img.data) |-> SubSeq(img.data[i], 1, 3)])

Chars(a, b, c, d, e, f) == <<"#", a, b, c, d, e, f>>

Options(bg, tol) ==
    [backgroundColor |-> bg, colorTolerance |-> tol,
     gradientCleanup |-> None, upscale |-> None]
DefaultOptions == Options(None, None)

Scenario(img, opts) == [input |-> img, options |-> opts]

DetectSide == 20

\* rasters large enough for the detector to sample
OpaqueCornerImages ==
    {BlockImage(DetectSide, <<c1, c2, c3, Gray(100)>>, ce, Gray(100)) :
        c1 \in {Gray(100), Gray(140)},
        c2 \in {Gray(80), Gray(100), Gray(120)},
        c3 \in {Gray(80), Gray(100), Gray(120)},
        ce \in {Gray(100), Gray(200)}}
MixedAlphaImages ==
    {BlockImage(DetectSide, <<c1, c2, c3, c4>>, ce, fill) :
        c1 \in {Gray(100), Faint}, c2 \in {Gray(100), Faint},
        c3 \in {Gray(100), Faint}, c4 \in {Gray(100), Faint},
        ce \in {Gray(200), Faint, FaintLight}, fill \in {Gray(100), Faint}}
SpeckImages ==
    {WithSpeck(BlockImage(DetectSide, <<Gray(100), c2, Gray(100), Gray(100)>>,
                          ce, Gray(100)), p) :
        c2 \in {Gray(100), Gray(120)}, ce \in {Gray(100), Gray(200)},
        p \in {Black, Clear}}
DetectImages == OpaqueCornerImages \cup MixedAlphaImages \cup SpeckImages
\* grey 100 all round with a centre close to it, or partly of it
CentreBase(ce) ==
    BlockImage(DetectSide, <<Gray(100), Gray(100), Gray(100), Gray(100)>>,
               ce, Gray(100))
CentreImages ==
    {CentreBase(Gray(125)), CentreBase(Gray(131)),
     [CentreBase(Gray(200)) EXCEPT !.data[9 * DetectSide + 10] = Gray(100)],
     [CentreBase(Gray(100)) EXCEPT
         !.data = [i \in 1..Len(@) |->
                      IF i \in (8 * DetectSide + 9)..(8 * DetectSide + 12)
                      THEN White ELSE @[i]]]}
CentreTolerances == {None, Some(20), Some(40)}
RedCornerImage == BlockImage(DetectSide, <<Red, Red, Red, Red>>, Black, White)

\* sparse rasters: at most MaxSeeds pixels on a transparent ground
SeedSets(n) == {S \in SUBSET (1..n) : Cardinality(S) <= MaxSeeds}
SparseImages ==
    {SeedImage(d[1], d[2], S, p) :
        d \in {<<MaxSide, 2>>, <<2, MaxSide>>},
        S \in SeedSets(2 * MaxSide), p \in {Red, Faint}}

\* two-pixel rasters, with and without alpha channel
PairPixels == {Black, Gray(20), White, Red, Clear, <<250, 250, 250, 60>>}
PairImages ==
    LET rgba == {Raster(2, 1, 4, <<p, q>>) : p \in PairPixels, q \in PairPixels}
    IN  rgba \cup {WithoutAlpha(img) : img \in rgba}

\* one-row rasters of StripLen pixels
StripLen == 4
StripPixels == {Gray(40), Gray(50), Red, Faint}
StripImages ==
    {Raster(StripLen, 1, 4, d) : d \in [1..StripLen -> StripPixels]}

WithCleanup(opts, level) == [opts EXCEPT !.gradientCleanup = Some(level)]

\* rasters with shades fading into a transparent edge, and one with an
\* isolated speck
EdgeRow(ps) == Raster(Len(ps), 1, 4, ps)
EdgeImages ==
    {EdgeRow(<<Clear, Gray(160), Gray(100), Gray(40), Gray(40), Gray(40)>>),
     EdgeRow(<<Gray(40), Gray(40), Gray(120), Clear, Clear, Red>>),
     WithoutAlpha(EdgeRow(<<Gray(40), Gray(40), Gray(120), Gray(160)>>)),
     SeedImage(4, 4, {1, 11, 12, 15, 16}, Gray(40)),
     [SeedImage(4, 4, {11, 12, 15, 16}, Gray(40)) EXCEPT !.data[6] = Red],
     EdgeRow(<<Clear, Gray(160), Gray(130), Gray(100),
               Gray(40), Gray(40), Gray(40), Gray(40)>>),
     EdgeRow(<<Clear, Red, Red, Gray(40)>>),
     FlatImage(3, 3, Clear)}
CleanupLevels == {0, 1, 3, 5}

\* shades of which one lies within the tolerance of two others
LayerImages ==
    {EdgeRow(<<Gray(40), Gray(40), Gray(70), Gray(70), Gray(55)>>),
     EdgeRow(<<Gray(40), Gray(40), Gray(40), Gray(60), Gray(60), Gray(80),
               Faint>>)}

WithUpscale(opts, s) == [opts EXCEPT !.upscale = Some(s)]

\* transparent rasters with a side near the 4000-pixel limit of the
\* upscaler, and a small one; for these sizes the quotients the upscaler
\* rounds are the same in double precision as in exact arithmetic
WideImages ==
    {FlatImage(d[1], d[2], Clear) :
        d \in {<<2000, 1>>, <<2001, 2>>, <<1, 4000>>, <<4001, 1>>, <<3, 2>>}}
UpscaleFactors ==
    {Scale(1, 2), Scale(1, 1), Scale(3, 2), Scale(2, 1), Scale(4, 1)}

ExplicitColors ==
    {Chars("0", "0", "0", "0", "0", "0"),
     Chars("F", "f", "F", "f", "F", "f"),
     <<"1", "4", "1", "4", "1", "4">>}
ExplicitTolerances == {None, Some(0), Some(20)}

Scenarios ==
    {Scenario(SquareImage(100, 100, 40, White, Black), DefaultOptions),
     Scenario(FlatImage(50, 50, Clear), DefaultOptions),
     Scenario(RedCornerImage, DefaultOptions),
     Scenario(RedCornerImage,
              Options(Some(Chars("f", "f", "f", "f", "f", "f")), None))}
    \cup {Scenario(img, DefaultOptions) : img \in DetectImages}
    \cup {Scenario(img, Options(None, t)) :
              img \in CentreImages, t \in CentreTolerances}
    \cup {Scenario(img, DefaultOptions) : img \in SparseImages}
    \cup {Scenario(img, DefaultOptions) : img \in StripImages}
    \cup {Scenario(img, WithCleanup(DefaultOptions, level)) :
              img \in EdgeImages, level \in CleanupLevels}
    \cup {Scenario(img, DefaultOptions) : img \in EdgeImages}
    \cup {Scenario(img, DefaultOptions) : img \in LayerImages}
    \cup {Scenario(img, WithUpscale(DefaultOptions, f)) :
              img \in WideImages, f \in UpscaleFactors}
    \cup {Scenario(img, Options(Some(c), t)) :
             img \in PairImages, c \in ExplicitColors, t \in ExplicitTolerances}

\* no command-line action is running
NoCommand == [step |-> "none"]

\* convertImageToSvg(input, options): the input is a buffer or a path;
\* `input` is the raster it decodes to (none when it cannot be decoded)
Source(kind, state) == [kind |-> kind, state |-> state]
Call(src, sc) == [source |-> src, input |-> sc.input, options |-> sc.options]

PathScenarios ==
    {Scenario(img, DefaultOptions) : img \in EdgeImages \cup LayerImages}
BadSources ==
    {Source("path", "missing"), Source("path", "undecodable"),
     Source("buffer", "undecodable")}
BadScenarios ==
    {Scenario(NoRaster, opts) :
        opts \in {DefaultOptions,
                  Options(Some(Chars("f", "f", "f", "f", "f", "f")), None),
                  WithCleanup(DefaultOptions, 1)}}
Calls ==
    {Call(Source("buffer", "ok"), sc) : sc \in Scenarios}
    \cup {Call(Source("path", "ok"), sc) : sc \in PathScenarios}
    \cup {Call(src, sc) : src \in BadSources, sc \in BadScenarios}

--------------------------------------------------------------------------
(* convertImageToSvg as a state machine, one step per awaited stage        *)

\* the locals of an activation when convertImageToSvg is entered
StartFrame(c) ==
    [pc |-> "load", source |-> c.source, entered |-> <<>>,
     ident |-> [imageBuffer |-> IF c.source.kind = "buffer" THEN 1 ELSE 0,
                noBackground |-> 0, cleanedImage |-> 0, trimmed |-> 0,
                processBuffer |-> 0],
     input |-> c.input, options |-> c.options,
     detectorRan |-> FALSE, detected |-> None, noBackground |-> NoRaster,
     dominant |-> None, passLog |-> <<>>, cleanedImage |-> NoRaster,
     trimmed |-> NoRaster, upscaled |-> NoUpscale, colors |-> <<>>,
     colorIdx |-> 0, traces |-> <<>>, paths |-> <<>>,
     tracedViewBox |-> None, result |-> None]

\* the running activation is f
Running(f) ==
    /\ pc = f.pc
    /\ source = f.source
    /\ entered = f.entered
    /\ ident = f.ident
    /\ input = f.input
    /\ options = f.options
    /\ detectorRan = f.detectorRan
    /\ detected = f.detected
    /\ noBackground = f.noBackground
    /\ dominant = f.dominant
    /\ passLog = f.passLog
    /\ cleanedImage = f.cleanedImage
    /\ trimmed = f.trimmed
    /\ upscaled = f.upscaled
    /\ colors = f.colors
    /\ colorIdx = f.colorIdx
    /\ traces = f.traces
    /\ paths = f.paths
    /\ tracedViewBox = f.tracedViewBox
    /\ result = f.result

\* one call of convertImageToSvg, nothing else going on
Init ==
    /\ \E c \in Calls : Running(StartFrame(c))
    /\ parked = None
    /\ cfg = NoCommand

\* Load image: a path is read and decoded here, a buffer is taken as it is
Load ==
    /\ pc = "load"
    /\ UNCHANGED <<parked, cfg>>
    /\ IF source.kind = "path"
       THEN IF source.state = "ok"
            THEN /\ pc' = "removeBackground"
                 /\ ident' = [ident EXCEPT !.imageBuffer = NewObject(ident)]
            ELSE /\ pc' = "rejected"
                 /\ ident' = ident
       ELSE /\ pc' = "removeBackground"
            /\ ident' = ident
    /\ UNCHANGED <<source, entered, input, options, detectorRan, detected,
                   noBackground, dominant, passLog, cleanedImage, trimmed,
                   upscaled, colors, colorIdx, traces, paths, tracedViewBox,
                   result>>

\* Step 1: removeBackground; cleanedImage = noBackground.  A buffer that
\* cannot be decoded makes the first sharp call of the stage reject (in
\* detectBackgroundColor unless a colour is given)
RemoveBackground ==
    /\ pc = "removeBackground"
    /\ UNCHANGED <<parked, cfg>>
    /\ entered' = Append(entered, "removeBackground")
    /\ IF source.state # "ok"
       THEN /\ detectorRan' = ~hasExplicitBackground(options)
            /\ pc' = "rejected"
            /\ UNCHANGED <<detected, noBackground, cleanedImage, ident>>
       ELSE /\ LET rb == removeBackground(input, options)
               IN  /\ detectorRan' = rb.ran
                   /\ detected' = rb.detected
                   /\ noBackground' = rb.out
                   /\ cleanedImage' = rb.out
            /\ ident' = LET n == NewObject(ident)
                        IN  [ident EXCEPT !.noBackground = n,
                                          !.cleanedImage = n]
            /\ pc' = IF cleanupEnabled(options) THEN "cleanup"
                     ELSE "trimAlpha"
    /\ UNCHANGED <<source, input, options, dominant, passLog, trimmed,
                   upscaled, colors, colorIdx, traces, paths, tracedViewBox,
                   result>>

\* Step 2: cleanupGradientEdges, when the level is above 0
Cleanup ==
    /\ pc = "cleanup"
    /\ UNCHANGED <<parked, cfg>>
    /\ cleanedImage' = cleanupGradientEdges(noBackground,
                                            cleanupPassesOf(options),
                                            gradientToleranceOf(options))
    /\ pc' = "trimAlpha"
    /\ dominant' = getDominantColor(noBackground)
    /\ entered' = Append(entered, "cleanupGradientEdges")
    /\ ident' = [ident EXCEPT !.cleanedImage =
                     IF cleanupReturnsInput(noBackground,
                                            cleanupPassesOf(options),
                                            gradientToleranceOf(options))
                     THEN ident.noBackground
                     ELSE NewObject(ident)]
    /\ passLog' = cleanupPassLog(noBackground, cleanupPassesOf(options),
                                 gradientToleranceOf(options))
    /\ UNCHANGED <<source, input, options, detectorRan, detected, noBackground,
                   trimmed, upscaled, colors, colorIdx, traces, paths,
                   tracedViewBox, result>>

\* Step 3: trimAlpha
TrimAlpha ==
    /\ pc = "trimAlpha"
    /\ UNCHANGED <<parked, cfg>>
    /\ trimmed' = trimAlpha(cleanedImage)
    /\ entered' = Append(entered, "trimAlpha")
    /\ ident' = [ident EXCEPT !.trimmed =
                     IF trimReturnsInput(boundingBox(cleanedImage))
                     THEN ident.cleanedImage
                     ELSE NewObject(ident)]
    /\ pc' = "upscale"
    /\ UNCHANGED <<source, input, options, detectorRan, detected, noBackground,
                   dominant, passLog,
                   cleanedImage, upscaled, colors, colorIdx, traces, paths,
                   tracedViewBox, result>>

\* vectorizeWithColors: upscaleForTracing
Upscale ==
    /\ pc = "upscale"
    /\ UNCHANGED <<parked, cfg>>
    /\ upscaled' = upscaleForTracing(trimmed, upscaleOf(options))
    /\ entered' = Append(entered, "vectorizeImage")
    /\ ident' = [ident EXCEPT !.processBuffer =
                     IF upscaleReturnsInput(trimmed, upscaleOf(options))
                     THEN ident.trimmed
                     ELSE NewObject(ident)]
    /\ pc' = "extractColors"
    /\ UNCHANGED <<source, input, options, detectorRan, detected, noBackground,
                   dominant, passLog,
                   cleanedImage, trimmed, colors, colorIdx, traces, paths,
                   tracedViewBox, result>>

\* vectorizeWithColors: extractUniqueColors; the empty document when the
\* palette is empty
ExtractColors ==
    /\ pc = "extractColors"
    /\ UNCHANGED <<parked, cfg>>
    /\ LET cs == extractUniqueColors(upscaled.buffer, paletteToleranceOf(options))
       IN  /\ colors' = cs
           /\ IF Len(cs) = 0
              THEN /\ result' = Some(EmptyDocument(upscaled.originalWidth,
                                                   upscaled.originalHeight))
                   /\ pc' = "done"
              ELSE /\ result' = result
                   /\ pc' = "trace"
    /\ UNCHANGED <<source, entered, ident, input, options, detectorRan,
                   detected, noBackground, dominant, passLog, cleanedImage,
                   trimmed, upscaled, colorIdx, traces, paths, tracedViewBox>>

\* variant: the fallback is sized to the raster that was traced
FinalDocument_tracedSize(ps, vb) ==
    IF Len(ps) = 0 \/ ~IsSome(vb)
    THEN EmptyDocument(upscaled.buffer.width, upscaled.buffer.height)
    ELSE ComposedDocument(upscaled.originalWidth, upscaled.originalHeight,
                          Get(vb), ps)

\* the document returned after the loop
FinalDocument(ps, vb) ==
    IF Len(ps) = 0 \/ ~IsSome(vb)
    THEN EmptyDocument(upscaled.originalWidth, upscaled.originalHeight)
    ELSE ComposedDocument(upscaled.originalWidth, upscaled.originalHeight,
                          Get(vb), ps)

\* one iteration of the colour loop: createColorMask, traceAsync, and what
\* follows the await (after the last colour, the composition and return)
TraceColor ==
    /\ pc = "trace"
    /\ UNCHANGED <<parked, cfg>>
    /\ colorIdx < Len(colors)
    /\ LET color == colors[colorIdx + 1]
           mask == createColorMask(upscaled.buffer, color,
                                   paletteToleranceOf(options))
       IN  \E svg \in TraceOutcomes(mask) :
             /\ traces' = Append(traces, [color |-> color, mask |-> mask,
                                          svg |-> svg])
             /\ IF traceFailed(svg)
                THEN /\ pc' = "failed"
                     /\ UNCHANGED <<colorIdx, paths, tracedViewBox, result>>
                ELSE LET pathData == extractPathFromSvg(svg)
                         ps == IF hasPathData(pathData)
                               THEN pushPath(paths, color, Get(pathData))
                               ELSE paths
                         vb == IF hasPathData(pathData)
                               THEN recordViewBox(tracedViewBox, svg)
                               ELSE tracedViewBox
                     IN  /\ paths' = ps
                         /\ tracedViewBox' = vb
                         /\ colorIdx' = colorIdx + 1
                         /\ IF colorIdx + 1 = Len(colors)
                            THEN /\ result' = Some(FinalDocument(ps, vb))
                                 /\ pc' = "done"
                            ELSE /\ result' = result
                                 /\ pc' = "trace"
    /\ UNCHANGED <<source, entered, ident, input, options, detectorRan,
                   detected, noBackground, dominant, passLog, cleanedImage,
                   trimmed, upscaled, colors>>

Next ==
    \/ Load
    \/ RemoveBackground
    \/ Cleanup
    \/ TrimAlpha
    \/ Upscale
    \/ ExtractColors
    \/ TraceColor

Spec == Init /\ [][Next]_vars

--------------------------------------------------------------------------
(* The command-line action of index.ts: configuration merging              *)

\* an object literal spread over another: own keys of b win, whatever
\* their value (undefined included)
Spread(a, b) ==
    [k \in DOMAIN a \cup DOMAIN b |-> IF k \in DOMAIN b THEN b[k] ELSE a[k]]

\* ...o for an o that may be undefined (None): nothing is copied then
SpreadOpt(a, o) == IF IsSome(o) THEN Spread(a, Get(o)) ELSE a

EmptyObject == [k \in {} |-> None]

\* a path as path.resolve sees it: absolute or not, and its segments
Path(abs, segs) == [abs |-> abs, segs |-> segs]
Cwd == <<"home", "project">>

\* path.resolve(p) in the working directory
Resolve(p) == IF p.abs THEN p ELSE Path(TRUE, Cwd \o p.segs)

\* A Partial<Config>: top holds the scalar settings that are own keys,
\* social and padding are None when the key is absent.  Every property
\* value is optional: None is undefined.
PartialConfig(top, social, padding) ==
    [top |-> top, social |-> social, padding |-> padding]

SocialKeys == {"title", "tagline", "font", "titleSize", "taglineSize",
               "titleColor", "taglineColor"}
PaddingKeys == {"favicon", "social", "apple", "android"}

\* types.ts defaultConfig; the padding fractions in hundredths
defaultConfig ==
    PartialConfig(
        [input |-> Some(Path(FALSE, <<"logo.svg">>)),
         output |-> Some(Path(FALSE, <<"assets">>)),
         background |-> Some("#ffffff"),
         theme |-> Some("#1a73e8")],
        Some([title |-> Some(""), tagline |-> Some(""),
              font |-> Some("sans-serif"), titleSize |-> Some(64),
              taglineSize |-> Some(32), titleColor |-> Some("#1a1a1a"),
              taglineColor |-> Some("#666666")]),
        Some([favicon |-> Some(10), social |-> Some(15),
              apple |-> Some(10), android |-> Some(10)]))

\* mergeConfig(base, override)
mergeConfig(base, override) ==
    PartialConfig(Spread(base.top, override.top),
                  Some(SpreadOpt(Get(base.social), override.social)),
                  Some(SpreadOpt(Get(base.padding), override.padding)))

\* the options commander hands to the action: undefined unless given
OptionNames == {"input", "inputWide", "output", "config", "background",
                "theme", "title", "tagline"}
OptionValue(name) ==
    CASE name = "input" -> Path(FALSE, <<"cli.svg">>)
      [] name = "inputWide" -> Path(FALSE, <<"cli-wide.svg">>)
      [] name = "output" -> Path(TRUE, <<"srv", "out">>)
      [] name = "config" -> Path(FALSE, <<"wso.json">>)
      [] name = "background" -> "#c0c0c0"
      [] name = "theme" -> "#c1c1c1"
      [] name = "title" -> "Cli title"
      [] name = "tagline" -> "Cli tagline"
CommandLines ==
    {[name \in OptionNames |->
         IF name \in given THEN Some(OptionValue(name)) ELSE None] :
     given \in SUBSET OptionNames}

\* what JSON.parse may yield for the configuration file; None: the file
\* is missing or is not JSON
ConfigFiles ==
    {None,
     Some(PartialConfig(EmptyObject, None, None)),
     Some(PartialConfig(EmptyObject,
                        Some([tagline |-> Some("File tagline")]), None)),
     Some(PartialConfig([theme |-> Some("#f1f1f1")],
                        Some([title |-> Some("File title"),
                              tagline |-> Some("File tagline"),
                              font |-> Some("serif")]),
                        Some([favicon |-> Some(20)]))),
     Some(PartialConfig([input |-> Some(Path(FALSE, <<"brand.svg">>)),
                         inputWide |-> Some(Path(TRUE, <<"srv", "wide.svg">>)),
                         background |-> Some("#f0f0f0")],
                        Some(EmptyObject),
                        Some([social |-> Some(5), apple |-> Some(0)])))}

\* loadConfig: the parsed file, {} when reading or parsing fails
loadConfig(file) ==
    IF IsSome(file) THEN Get(file) ELSE PartialConfig(EmptyObject, None, None)

\* the truthiness of an option value: undefined and '' are falsy
Truthy(o) == IsSome(o) /\ Get(o) # ""

\* Build config from CLI options
cliConfigOf(opts) ==
    LET given == [k \in {x \in {"input", "inputWide", "output"} :
                            IsSome(opts[x])} |->
                     Some(Resolve(Get(opts[k])))]
        plain == [k \in {x \in {"background", "theme"} : Truthy(opts[x])} |->
                     opts[k]]
    IN  PartialConfig(
            Spread(given, plain),
            IF Truthy(opts["title"]) \/ Truthy(opts["tagline"])
            THEN Some([title |-> opts["title"], tagline |-> opts["tagline"]])
            ELSE None,
            None)

\* Resolve paths
resolvePaths(config) ==
    [config EXCEPT !.top =
        [k \in DOMAIN config.top |->
            IF k \in {"input", "inputWide", "output"} /\ IsSome(config.top[k])
            THEN Some(Resolve(Get(config.top[k])))
            ELSE config.top[k]]]

Command(step, opts, file, fileConfig, cliConfig, config) ==
    [step |-> step, options |-> opts, file |-> file,
     fileConfig |-> fileConfig, cliConfig |-> cliConfig, config |-> config]

\* no conversion is running while the action merges its configuration
NoConversion ==
    [StartFrame(Call(Source("buffer", "ok"),
                     Scenario(NoRaster, DefaultOptions)))
        EXCEPT !.pc = "none"]

ConfigInit ==
    /\ \E opts \in CommandLines, file \in ConfigFiles :
           cfg = Command("start", opts, file,
                         PartialConfig(EmptyObject, None, None),
                         PartialConfig(EmptyObject, None, None),
                         defaultConfig)
    /\ Running(NoConversion)
    /\ parked = None

\* Load config file if provided
LoadConfig ==
    /\ cfg.step = "start"
    /\ cfg' = [cfg EXCEPT !.step = "loaded",
                          !.fileConfig =
                              IF IsSome(cfg.options["config"])
                              THEN loadConfig(cfg.file)
                              ELSE cfg.fileConfig]
    /\ UNCHANGED <<frame, parked>>

BuildCliConfig ==
    /\ cfg.step = "loaded"
    /\ cfg' = [cfg EXCEPT !.step = "built",
                          !.cliConfig = cliConfigOf(cfg.options)]
    /\ UNCHANGED <<frame, parked>>

\* let config = mergeConfig(defaultConfig, fileConfig)
MergeFile ==
    /\ cfg.step = "built"
    /\ cfg' = [cfg EXCEPT !.step = "fileMerged",
                          !.config = mergeConfig(defaultConfig, cfg.fileConfig)]
    /\ UNCHANGED <<frame, parked>>

\* config = mergeConfig(config, cliConfig)
MergeCli ==
    /\ cfg.step = "fileMerged"
    /\ cfg' = [cfg EXCEPT !.step = "merged",
                          !.config = mergeConfig(cfg.config, cfg.cliConfig)]
    /\ UNCHANGED <<frame, parked>>

ResolvePaths ==
    /\ cfg.step = "merged"
    /\ cfg' = [cfg EXCEPT !.step = "resolved",
                          !.config = resolvePaths(cfg.config)]
    /\ UNCHANGED <<frame, parked>>

ConfigNext ==
    \/ LoadConfig
    \/ BuildCliConfig
    \/ MergeFile
    \/ MergeCli
    \/ ResolvePaths

ConfigSpec == ConfigInit /\ [][ConfigNext]_vars

--------------------------------------------------------------------------
(* Two conversions on one event loop                                       *)

\* the locals of the running activation, as a record
thisFrame ==
    [pc |-> pc, source |-> source, entered |-> entered, ident |-> ident,
     input |-> input, options |-> options, detectorRan |-> detectorRan,
     detected |-> detected, noBackground |-> noBackground,
     dominant |-> dominant, passLog |-> passLog,
     cleanedImage |-> cleanedImage, trimmed |-> trimmed,
     upscaled |-> upscaled, colors |-> colors, colorIdx |-> colorIdx,
     traces |-> traces, paths |-> paths, tracedViewBox |-> tracedViewBox,
     result |-> result]

\* the calls made side by side
PairCalls ==
    {Call(Source("buffer", "ok"),
          Scenario(EdgeRow(<<Clear, Red, Red, Gray(40)>>),
                   WithCleanup(DefaultOptions, 1))),
     Call(Source("buffer", "ok"),
          Scenario(EdgeRow(<<Gray(40), Gray(40), Gray(70), Gray(70),
                             Gray(55)>>), DefaultOptions)),
     Call(Source("path", "ok"),
          Scenario(EdgeRow(<<Gray(40), Gray(40), Gray(120), Clear, Clear,
                             Red>>), DefaultOptions)),
     Call(Source("buffer", "ok"),
          Scenario(FlatImage(3, 3, Clear), DefaultOptions))}

\* two calls of convertImageToSvg on different images; the second one is
\* suspended until the first one awaits
PairInit ==
    /\ \E c1 \in PairCalls, c2 \in PairCalls :
           /\ c1.input # c2.input
           /\ Running(StartFrame(c1))
           /\ parked = Some(StartFrame(c2))
    /\ cfg = NoCommand

Returned(f) == f.pc \in {"done", "failed", "rejected"}

\* variant: the fragments are collected in one array of the module
activationPaths_moduleLevel(f) == paths

\* the paths array of an activation: a local of its vectorizeWithColors call
activationPaths(f) == f.paths

\* an await: the running activation is suspended and the other one, which
\* has not returned yet, continues with its own locals
Yield ==
    /\ IsSome(parked)
    /\ ~Returned(Get(parked))
    /\ LET f == Get(parked)
       IN  /\ pc' = f.pc
           /\ source' = f.source
           /\ entered' = f.entered
           /\ ident' = f.ident
           /\ input' = f.input
           /\ options' = f.options
           /\ detectorRan' = f.detectorRan
           /\ detected' = f.detected
           /\ noBackground' = f.noBackground
           /\ dominant' = f.dominant
           /\ passLog' = f.passLog
           /\ cleanedImage' = f.cleanedImage
           /\ trimmed' = f.trimmed
           /\ upscaled' = f.upscaled
           /\ colors' = f.colors
           /\ colorIdx' = f.colorIdx
           /\ traces' = f.traces
           /\ paths' = activationPaths(f)
           /\ tracedViewBox' = f.tracedViewBox
           /\ result' = f.result
    /\ parked' = Some(thisFrame)
    /\ UNCHANGED cfg

PairNext ==
    \/ Load
    \/ RemoveBackground
    \/ Cleanup
    \/ TrimAlpha
    \/ Upscale
    \/ ExtractColors
    \/ TraceColor
    \/ Yield

PairSpec == PairInit /\ [][PairNext]_vars

--------------------------------------------------------------------------
(* Properties                                                              *)

AfterRemove == pc \notin {"load", "removeBackground", "rejected"}
AfterTrim == AfterRemove /\ pc \notin {"cleanup", "trimAlpha"}

HexWhite == Chars("f", "f", "f", "f", "f", "f")
HexBlack == Chars("0", "0", "0", "0", "0", "0")

\* every trace of a mask that has a 0-region answered with a non-empty path
\* and a viewBox
TracerFaithful ==
    \A k \in 1..Len(traces) :
        (\E i \in 1..Len(traces[k].mask.data) : traces[k].mask.data[i] = <<0>>)
            => /\ traces[k].svg.kind = "svg"
               /\ hasPathData(extractPathFromSvg(traces[k].svg))
               /\ IsSome(traces[k].svg.viewBox)

SquareScenario ==
    /\ input.width = 100
    /\ options = DefaultOptions
    /\ input = SquareImage(100, 100, 40, White, Black)

\* C1 as stated: the white 100x100 raster with the centred black 40x40
\* square converts, with default options and a tracer that answers every
\* non-empty mask, to one path filled #000000 with non-empty data in a
\* document declared 100 wide and 100 high.
C1_DisplaySizeIsInputSize ==
    (SquareScenario /\ pc = "done" /\ TracerFaithful) =>
        LET doc == Get(result)
        IN  /\ Len(doc.paths) = 1
            /\ doc.paths[1].color = HexBlack
            /\ Len(doc.paths[1].d) > 0
            /\ doc.width = 100
            /\ doc.height = 100

\* C1 (amended): the same conversion yields exactly one path, filled
\* #000000, with non-empty data; the declared width and height are 44 and
\* 44, the size of the trimmed raster (the square plus the 2-pixel margin),
\* and the viewBox is the upscaled 88 x 88.
C1_EndToEndSquare ==
    (SquareScenario /\ pc = "done" /\ TracerFaithful) =>
        LET doc == Get(result)
        IN  /\ Len(doc.paths) = 1
            /\ doc.paths[1].color = HexBlack
            /\ Len(doc.paths[1].d) > 0
            /\ doc.width = 44
            /\ doc.height = 44
            /\ doc.viewBox = <<88, 88>>

C1_Witness ==
    /\ SquareScenario
    /\ pc = "done"
    /\ TracerFaithful
    /\ Len(traces) = 1
    /\ detected = Some(RGB(255, 255, 255))

\* the colour each explicit background string denotes
ExplicitColorValue(c) ==
    CASE c = HexBlack -> <<0, 0, 0>>
      [] c = HexWhite -> <<255, 255, 255>>
      [] c = Chars("F", "f", "F", "f", "F", "f") -> <<255, 255, 255>>
      [] c = <<"1", "4", "1", "4", "1", "4">> -> <<20, 20, 20>>

WithinTolerance(p, bg, tol) ==
    \A k \in 1..3 : p[k] - bg[k] <= tol /\ bg[k] - p[k] <= tol

\* C2: with an explicit background colour, removeBackground returns a
\* 4-channel raster of the input's width and height in which a pixel whose
\* R, G and B are all within the tolerance of that colour is (0,0,0,0) and
\* every other pixel keeps its R, G, B and its alpha (255 if the input had
\* no alpha channel).
C2_RemoveExplicit ==
    (AfterRemove /\ IsSome(options.backgroundColor)) =>
        LET bg == ExplicitColorValue(Get(options.backgroundColor))
            tol == IF options.colorTolerance = None THEN 30
                   ELSE Get(options.colorTolerance)
        IN  /\ noBackground.width = input.width
            /\ noBackground.height = input.height
            /\ noBackground.channels = 4
            /\ Len(noBackground.data) = input.width * input.height
            /\ \A i \in 1..Len(input.data) :
                   LET p == input.data[i]
                   IN  noBackground.data[i] =
                          IF WithinTolerance(p, bg, tol) THEN <<0, 0, 0, 0>>
                          ELSE <<p[1], p[2], p[3],
                                 IF input.channels = 4 THEN p[4] ELSE 255>>

C2_Witness ==
    /\ pc = "trimAlpha"
    /\ IsSome(options.backgroundColor)
    /\ input.channels = 3
    /\ input.data[1] # input.data[2]
    /\ noBackground.data[1] = <<0, 0, 0, 0>>
    /\ noBackground.data[2] = Append(input.data[2], 255)

\* C3: with an explicit background colour the detector is never run, and
\* on the raster with four #ff0000 corners, explicit #ffffff and the
\* default tolerance, every red pixel is unchanged and exactly the white
\* pixels are cleared.
C3_ExplicitOverridesDetection ==
    /\ IsSome(options.backgroundColor) => (~detectorRan /\ detected = None)
    /\ (/\ AfterRemove
        /\ options = Options(Some(HexWhite), None)
        /\ input.width = DetectSide) =>
            \A i \in 1..Len(input.data) :
                /\ input.data[i] = Red => noBackground.data[i] = Red
                /\ noBackground.data[i] = Clear <=> input.data[i] = White

C3_Witness ==
    /\ pc = "trimAlpha"
    /\ options = Options(Some(HexWhite), None)
    /\ input = RedCornerImage
    /\ detectBackgroundColor(input) = Some(RGB(255, 0, 0))
    /\ ~detectorRan
    /\ PixelAt(noBackground, 0, 0) = Red
    /\ PixelAt(noBackground, DetectSide - 1, DetectSide - 1) = Red

\* the detector sampled the raster (it is large enough for sampling)
Sampled == detectorRan /\ sampleSizeOf(input) >= 2

\* C4 as stated: the detector returns "no background" whenever any two of
\* the four corner mean colours fail to match within tolerance 30.
C4_EveryPairOfCornersCompared ==
    Sampled =>
        LET cc == cornerColorsOf(input)
        IN  (\E i \in 1..4 : \E j \in 1..4 :
                \/ Abs(cc[i].r - cc[j].r) > 30
                \/ Abs(cc[i].g - cc[j].g) > 30
                \/ Abs(cc[i].b - cc[j].b) > 30)
            => detected = None

HasContent(img) ==
    \E i \in 1..Len(img.data) : EnsureAlpha(img).data[i][4] > 0

\* C5 as stated: trimAlpha returns its input unchanged only when no pixel
\* has alpha > 0; with at least one such pixel (a single pixel, column or
\* row included) the output is the crop around the content.
C5_CropsWheneverContent ==
    AfterTrim =>
        IF HasContent(cleanedImage)
        THEN LET rect == trimRect(cleanedImage)
             IN  trimmed = Extract(cleanedImage, rect.left, rect.top,
                                   rect.width, rect.height)
        ELSE trimmed = cleanedImage

\* C6 as stated: when trimAlpha crops, the crop is the bounding box of the
\* pixels with alpha > 0 grown by 2 on each side and clamped to the raster:
\* columns max(0, minX-2)..min(width-1, maxX+2), rows likewise.
C6_CropIsBoxPlusMargin ==
    (AfterTrim /\ ~trimReturnsInput(boundingBox(cleanedImage))) =>
        LET box == boundingBox(cleanedImage)
            x1 == IF box.minX - 2 < 0 THEN 0 ELSE box.minX - 2
            y1 == IF box.minY - 2 < 0 THEN 0 ELSE box.minY - 2
            x2 == IF box.maxX + 2 > cleanedImage.width - 1
                  THEN cleanedImage.width - 1 ELSE box.maxX + 2
            y2 == IF box.maxY + 2 > cleanedImage.height - 1
                  THEN cleanedImage.height - 1 ELSE box.maxY + 2
        IN  /\ trimmed.width = x2 - x1 + 1
            /\ trimmed.height = y2 - y1 + 1
            /\ \A x \in x1..x2 : \A y \in y1..y2 :
                   PixelAt(trimmed, x - x1, y - y1) = PixelAt(cleanedImage, x, y)

\* C7: trimAlpha applied to its own result returns that result: same
\* dimensions, same pixels.
C7_TrimIdempotent ==
    AfterTrim => trimAlpha(trimmed) = trimmed

C7_Witness ==
    /\ AfterTrim
    /\ trimmed.width < cleanedImage.width
    /\ boundingBox(cleanedImage).minX > TrimMargin
    /\ trimAlpha(trimmed) = trimmed

\* C8: for a fixed explicit colour and tolerance, removeBackground applied
\* to its own output returns that output.
C8_RemoveIdempotent ==
    (AfterRemove /\ hasExplicitBackground(options)) =>
        removeBackground(noBackground, options).out = noBackground

\* a near-black colour cleared a pixel, and the cleared pixel matches it too
C8_Witness ==
    /\ AfterRemove
    /\ options.backgroundColor = Some(<<"1", "4", "1", "4", "1", "4">>)
    /\ options.colorTolerance = Some(20)
    /\ input.data[1] = Gray(20)
    /\ noBackground.data[1] = Clear
    /\ noBackground.data[2] = Red
    /\ colorsMatch(PixelColor(Clear), RGB(20, 20, 20), 20)

AllBelowOpaque(img) ==
    /\ img.channels = 4
    /\ \A i \in 1..Len(img.data) : img.data[i][4] < 128

\* C9: on a raster in which every pixel has alpha < 128 the detector
\* returns "no background".
C9_TransparentHasNoBackground ==
    (detectorRan /\ AllBelowOpaque(input)) => detected = None

\* sampled corners of one colour, a centre of another, all below alpha 128
C9_Witness ==
    /\ Sampled
    /\ AllBelowOpaque(input)
    /\ detected = None
    /\ PixelAt(input, 0, 0) = Faint
    /\ allCornersMatch(cornerColorsOf(input))
    /\ ~centerMatchesCorners(input, cornerColorsOf(input))

\* positions of the four corner sample regions and of the centre region
SampleRegion(img) ==
    LET n == IF img.width < img.height THEN img.width ELSE img.height
        t == n \div 10
        size == IF t > 10 THEN 10 ELSE t
        q == n \div 4
        csize == IF 2 * size < q THEN 2 * size ELSE q
        cx == (img.width - csize) \div 2
        cy == (img.height - csize) \div 2
    IN  {xy \in (0..(img.width - 1)) \X (0..(img.height - 1)) :
            \/ /\ xy[1] < size \/ xy[1] >= img.width - size
               /\ xy[2] < size \/ xy[2] >= img.height - size
            \/ /\ xy[1] >= cx /\ xy[1] < cx + csize
               /\ xy[2] >= cy /\ xy[2] < cy + csize}

FlatRegions(img) ==
    \A a \in SampleRegion(img) :
        SubSeq(PixelAt(img, a[1], a[2]), 1, 3) = SubSeq(PixelAt(img, 0, 0), 1, 3)

\* C10: when the four corner regions and the centre region all consist of
\* one flat colour the detector returns "no background", and auto-detected
\* removal leaves the pixels unchanged.
C10_UniformFillKept ==
    (AfterRemove /\ detectorRan /\ FlatRegions(input)) =>
        /\ detected = None
        /\ noBackground = EnsureAlpha(input)

\* opaque flat corners and centre: the centre comparison decides
C10_Witness ==
    /\ Sampled
    /\ FlatRegions(input)
    /\ PixelAt(input, 0, 0) = Gray(100)
    /\ ~cornersTransparent(cornerColorsOf(input))
    /\ detected = None
    /\ noBackground = input

AfterExtract == pc \in {"trace", "done", "failed"}

\* the palette tolerance in force: the option, 20 when unset
PaletteTolerance ==
    IF options.colorTolerance = None THEN 20 ELSE Get(options.colorTolerance)

\* C11: no two distinct colours of the palette match within the tolerance:
\* for every pair some channel differs by more than the tolerance.
C11_PaletteColoursApart ==
    AfterExtract =>
        \A i \in 1..Len(colors) : \A j \in 1..Len(colors) :
            i # j =>
                \/ Abs(colors[i].r - colors[j].r) > PaletteTolerance
                \/ Abs(colors[i].g - colors[j].g) > PaletteTolerance
                \/ Abs(colors[i].b - colors[j].b) > PaletteTolerance

\* a palette of two colours that absorbed a third, near-duplicate shade
C11_Witness ==
    /\ AfterExtract
    /\ Len(colors) = 2
    /\ Len(sortedColorsOf(upscaled.buffer)) = 3
    /\ colors[2] = sortedColorsOf(upscaled.buffer)[2]

\* number of pixels of the traced raster with alpha >= 128 and exactly
\* the RGB triple c
PixelCount(c) ==
    LET rgba == EnsureAlpha(upscaled.buffer)
    IN  Cardinality({i \in 1..Len(rgba.data) :
            /\ rgba.data[i][4] >= 128
            /\ rgba.data[i][1] = c.r
            /\ rgba.data[i][2] = c.g
            /\ rgba.data[i][3] = c.b})

\* C12: the palette is ordered by prevalence: every palette colour is the
\* exact RGB of some pixel with alpha >= 128, the first has the highest
\* count among those pixels, and an earlier colour never has a smaller
\* count than a later one; pixels with alpha < 128 are not counted.
\* Stated on the state extractUniqueColors returns in (the palette and
\* the raster are not written afterwards).
C12_PaletteByPrevalence ==
    (AfterExtract /\ traces = <<>>) =>
        LET rgba == EnsureAlpha(upscaled.buffer)
        IN  /\ \A i \in 1..Len(colors) : PixelCount(colors[i]) > 0
            /\ \A i \in 1..Len(colors) : \A j \in 1..Len(colors) :
                   i < j => PixelCount(colors[i]) >= PixelCount(colors[j])
            /\ \A c \in {PixelColor(rgba.data[k]) :
                            k \in {n \in 1..Len(rgba.data) :
                                      rgba.data[n][4] >= 128}} :
                   /\ Len(colors) > 0
                   /\ PixelCount(colors[1]) >= PixelCount(c)

\* a shade that comes first in the raster and is as frequent as the first
\* palette colour when its transparent pixels are counted, yet ranks second
C12_Witness ==
    /\ AfterExtract
    /\ traces = <<>>
    /\ Len(colors) = 2
    /\ colors[1] = RGB(255, 0, 0)
    /\ colors[2] = RGB(40, 40, 40)
    /\ PixelCount(colors[1]) > PixelCount(colors[2])
    /\ upscaled.buffer.data[1] = Faint
    /\ Cardinality({i \in 1..Len(upscaled.buffer.data) :
                       upscaled.buffer.data[i] = Faint})
           + PixelCount(colors[2]) >= PixelCount(colors[1])

\* C13: every mask is a single-channel raster with the source's width and
\* height whose values are 0 or 255, 0 exactly where the source pixel has
\* alpha >= 128 and matches the target colour within the tolerance.
C13_MaskMarksMatchingOpaque ==
    \A k \in 1..Len(traces) :
        LET mask == traces[k].mask
            src == EnsureAlpha(upscaled.buffer)
            c == traces[k].color
        IN  /\ mask.channels = 1
            /\ mask.width = src.width
            /\ mask.height = src.height
            /\ Len(mask.data) = src.width * src.height
            /\ \A i \in 1..Len(mask.data) :
                   /\ mask.data[i] \in {<<0>>, <<255>>}
                   /\ mask.data[i] = <<0>> <=>
                         /\ src.data[i][4] >= 128
                         /\ WithinTolerance(src.data[i], <<c.r, c.g, c.b>>,
                                            PaletteTolerance)

\* a mask that leaves out a transparent pixel of the target's own shade
C13_Witness ==
    /\ Len(traces) > 0
    /\ traces[1].color = RGB(50, 50, 50)
    /\ upscaled.buffer.data[1] = Faint
    /\ traces[1].mask.data[1] = <<255>>
    /\ \E i \in 1..Len(traces[1].mask.data) :
           traces[1].mask.data[i] = <<0>> /\ upscaled.buffer.data[i] = Gray(40)

\* the k-th trace answered with path data that is not blank
TraceYieldsPath(k) ==
    /\ traces[k].svg.kind = "svg"
    /\ \E i \in 1..Len(traces[k].svg.d) : traces[k].svg.d[i] # " "

PathTraces == {k \in 1..Len(traces) : TraceYieldsPath(k)}

\* position among the fragments of the one collected from the k-th trace
Rank(k) == Cardinality({n \in PathTraces : n <= k})

\* f is "#rrggbb" for the colour c
IsHexOf(f, c) ==
    /\ Len(f) = 7
    /\ f[1] = "#"
    /\ \A i \in 2..7 : HexValue(f[i]) >= 0
    /\ 16 * HexValue(f[2]) + HexValue(f[3]) = c.r
    /\ 16 * HexValue(f[4]) + HexValue(f[5]) = c.g
    /\ 16 * HexValue(f[6]) + HexValue(f[7]) = c.b

Composed == pc = "done" /\ IsSome(result) /\ Get(result).paths # <<>>

\* C14: the k-th trace is of the k-th palette colour; a colour has a
\* fragment exactly when its trace yielded path data (blank text is no
\* path); the fragments are in palette order, each filled with the hex of
\* its own palette colour, and a composed document holds them unchanged.
C14_FragmentsInPaletteOrder ==
    /\ \A k \in 1..Len(traces) : traces[k].color = colors[k]
    /\ Len(paths) = Cardinality(PathTraces)
    /\ \A k \in PathTraces :
           /\ paths[Rank(k)].d = traces[k].svg.d
           /\ IsHexOf(paths[Rank(k)].color, colors[k])
    /\ Composed => Get(result).paths = paths

\* a composed document of two fragments whose colours are the first and
\* the third of the palette, the second having been traced without a path
C14_Witness ==
    /\ Composed
    /\ Len(colors) = 3
    /\ PathTraces = {1, 3}
    /\ Len(Get(result).paths) = 2
    /\ Get(result).paths[2].color = rgbToHex(colors[3])
    /\ colors[1] # colors[3]

\* the document without fragments, sized to the raster before upscaling
IsEmptyDocument(doc) ==
    /\ doc.paths = <<>>
    /\ doc.width = trimmed.width
    /\ doc.height = trimmed.height

\* C15 as stated: the empty document is returned when the palette is empty
\* or no trace yields a path, and only then: if some trace yields a path,
\* the returned document holds every collected fragment.
C15_EmptyOnlyWithoutFragments ==
    pc = "done" =>
        /\ IsSome(result)
        /\ PathTraces = {} => IsEmptyDocument(Get(result))
        /\ PathTraces # {} =>
               /\ Get(result).paths = paths
               /\ Len(Get(result).paths) = Cardinality(PathTraces)

\* some trace that yielded a path also reported a viewBox
ViewBoxReported == \E k \in PathTraces : IsSome(traces[k].svg.viewBox)

\* C15: the empty document is returned when the palette is empty, no trace
\* yields a path, or no path-yielding trace reports a viewBox, and only
\* then: otherwise the returned document holds every collected fragment.
C15_EmptyWithoutFragmentsOrViewBox ==
    pc = "done" =>
        /\ IsSome(result)
        /\ (PathTraces = {} \/ ~ViewBoxReported)
               => IsEmptyDocument(Get(result))
        /\ (PathTraces # {} /\ ViewBoxReported) =>
               /\ Get(result).paths = paths
               /\ Len(Get(result).paths) = Cardinality(PathTraces)

\* two fragments were collected from an upscaled raster, neither trace
\* reported a viewBox, and the document returned is the empty one
C15_Witness ==
    /\ pc = "done"
    /\ PathTraces = {1, 2}
    /\ Len(paths) = 2
    /\ ~ViewBoxReported
    /\ upscaled.buffer.width > trimmed.width
    /\ IsEmptyDocument(Get(result))

FirstWithViewBox(k) ==
    /\ k \in PathTraces
    /\ IsSome(traces[k].svg.viewBox)
    /\ \A n \in PathTraces : n < k => ~IsSome(traces[n].svg.viewBox)

TransparentScenario ==
    /\ input.width = 50
    /\ input = FlatImage(50, 50, Clear)
    /\ options = DefaultOptions

\* C17: the conversion of a fully transparent 50x50 raster never fails and
\* never calls the tracer, and ends in a document without paths of
\* width 50, height 50 and viewBox 0 0 50 50.
C17_TransparentGivesEmptyDocument ==
    TransparentScenario =>
        /\ pc \notin {"failed", "rejected", "trace"}
        /\ traces = <<>>
        /\ AfterExtract =>
               /\ pc = "done"
               /\ IsSome(result)
               /\ Get(result).paths = <<>>
               /\ Get(result).width = 50
               /\ Get(result).height = 50
               /\ Get(result).viewBox = <<50, 50>>

C17_Witness ==
    /\ TransparentScenario
    /\ pc = "done"
    /\ colors = <<>>
    /\ upscaled.buffer.width = 100
    /\ Get(result).paths = <<>>

\* C20: once the tracer has failed for a palette colour the conversion has
\* failed: no document is returned, the failed trace is the last one (no
\* retry, no later colour traced) and the loop has not advanced.
C20_TraceFailureIsFatal ==
    \A k \in 1..Len(traces) :
        traces[k].svg.kind = "error" =>
            /\ pc = "failed"
            /\ result = None
            /\ k = Len(traces)
            /\ colorIdx = k - 1
            /\ \A n \in 1..(k - 1) : traces[n].color # traces[k].color

\* the first colour was traced into a fragment, the second failed, and a
\* third was never traced
C20_Witness ==
    /\ pc = "failed"
    /\ Len(colors) = 3
    /\ Len(traces) = 2
    /\ Len(paths) = 1
    /\ traces[2].svg.kind = "error"
    /\ result = None

AfterUpscale == pc \in {"extractColors", "trace", "done", "failed"}

\* the factor asked for, as numerator and denominator (2 when unset)
AskedNum == IF options.upscale = None THEN 2 ELSE Get(options.upscale).num
AskedDen == IF options.upscale = None THEN 1 ELSE Get(options.upscale).den

LargerSide == IF trimmed.width >= trimmed.height THEN trimmed.width
              ELSE trimmed.height

\* larger side times factor exceeds 4000
Limited == LargerSide * AskedNum > 4000 * AskedDen

\* the effective scale as numerator and denominator
EffNum == IF Limited THEN 4000 ELSE AskedNum
EffDen == IF Limited THEN LargerSide ELSE AskedDen

\* n times the effective scale, rounded to the nearest integer (half up)
Scaled(n) == (2 * n * EffNum + EffDen) \div (2 * EffDen)

\* C18: the effective scale is 4000 / max(width, height) when
\* max(width, height) * factor > 4000, else the factor; when it is <= 1
\* the input is returned unchanged with scale 1; otherwise the output is
\* round(width * scale) by round(height * scale) and its larger side is
\* at most 4000; the original width and height returned are the input's.
C18_UpscaleLimited ==
    AfterUpscale =>
        /\ upscaled.originalWidth = trimmed.width
        /\ upscaled.originalHeight = trimmed.height
        /\ IF EffNum <= EffDen
           THEN /\ upscaled.buffer = trimmed
                /\ upscaled.scale = Scale(1, 1)
           ELSE /\ upscaled.scale.num * EffDen = EffNum * upscaled.scale.den
                /\ upscaled.buffer.width = Scaled(trimmed.width)
                /\ upscaled.buffer.height = Scaled(trimmed.height)
                /\ upscaled.buffer.width <= 4000
                /\ upscaled.buffer.height <= 4000
                /\ Len(upscaled.buffer.data)
                       = upscaled.buffer.width * upscaled.buffer.height

\* a 2001x2 raster asked to be doubled is scaled by 4000/2001 to 4000x4
C18_Witness ==
    /\ AfterUpscale
    /\ trimmed.width = 2001
    /\ trimmed.height = 2
    /\ AskedNum = 2 * AskedDen
    /\ Limited
    /\ upscaled.buffer.width = 4000
    /\ upscaled.buffer.height = 4
    /\ upscaled.originalWidth = 2001

CleanupUnset ==
    \/ options.gradientCleanup = None
    \/ options.gradientCleanup = Some(0)

\* C19: with the gradient-cleanup level 0 or unset the cleaner is never
\* entered, and the raster trimAlpha is given (and crops) is the raster
\* removeBackground returned, pixel for pixel.
C19_NoCleanupAtLevelZero ==
    CleanupUnset =>
        /\ pc # "cleanup"
        /\ AfterRemove =>
               /\ cleanedImage = noBackground
               /\ cleanedImage = removeBackground(input, options).out
        /\ AfterTrim => trimmed = trimAlpha(noBackground)

\* level 0 on a raster the cleaner would have changed at level 1
C19_Witness ==
    /\ options.gradientCleanup = Some(0)
    /\ pc = "upscale"
    /\ cleanedImage = noBackground
    /\ cleanupGradientEdges(noBackground, 1, 35) # noBackground
    /\ trimmed = trimAlpha(noBackground)

CleanerRan == cleanupEnabled(options) /\ AfterRemove /\ pc # "cleanup"

\* the pass budget ceil(L / 2) and the tolerance 30 + 5 L of level L
PassBudget == (Get(options.gradientCleanup) + 1) \div 2
LevelTolerance == 30 + 5 * Get(options.gradientCleanup)

OpaqueCount(r) ==
    Cardinality({i \in 1..Len(r.data) : r.data[i][4] >= 128})

RemovedNothing(k) ==
    OpaqueCount(passLog[k].after) = OpaqueCount(passLog[k].before)

\* the raster the cleaner returns according to its pass log
LoggedResult ==
    IF passLog = <<>> THEN noBackground
    ELSE IF ~RemovedNothing(Len(passLog)) THEN passLog[Len(passLog)].after
    ELSE IF Len(passLog) = 1 THEN noBackground
    ELSE passLog[Len(passLog) - 1].after

\* C23: at level L > 0 the cleaner has returned after at most
\* ceil(L / 2) passes (each a scan of the raster, so the loop ends); a
\* pass that removes nothing is the last one, every pass followed by
\* another strictly lowers the number of pixels with alpha >= 128, the
\* loop goes on while the budget lasts and pixels are removed, and with
\* no pixel of alpha >= 128 no pass runs and the input is returned
\* unchanged.
C23_CleanerPassesBounded ==
    CleanerRan =>
          /\ Len(passLog) <= PassBudget
          /\ \A k \in 1..Len(passLog) :
                 /\ RemovedNothing(k) => k = Len(passLog)
                 /\ k < Len(passLog) =>
                        /\ OpaqueCount(passLog[k].after)
                               < OpaqueCount(passLog[k].before)
                        /\ passLog[k + 1].before = passLog[k].after
                 /\ (k = Len(passLog) /\ k < PassBudget) => RemovedNothing(k)
          /\ OpaqueCount(EnsureAlpha(noBackground)) = 0 =>
                 passLog = <<>> /\ cleanedImage = noBackground
          /\ OpaqueCount(EnsureAlpha(noBackground)) > 0 =>
                 /\ Len(passLog) >= 1
                 /\ passLog[1].before = EnsureAlpha(noBackground)
          /\ cleanedImage = LoggedResult

\* level 5 (budget 3): one pass removed a pixel, the second removed
\* nothing and ended the loop
C23_Witness ==
    /\ CleanerRan
    /\ PassBudget = 3
    /\ Len(passLog) = 2
    /\ ~RemovedNothing(1)
    /\ RemovedNothing(2)
    /\ cleanedImage = passLog[1].after
    /\ cleanedImage # noBackground

\* in-bounds 8-neighbours of pixel i of raster r with alpha < 128
TransparentAround(r, i) ==
    LET x == (i - 1) % r.width
        y == (i - 1) \div r.width
    IN  {j \in 1..Len(r.data) :
            /\ j # i
            /\ Abs(((j - 1) % r.width) - x) <= 1
            /\ Abs(((j - 1) \div r.width) - y) <= 1
            /\ r.data[j][4] < 128}

MatchesDominant(p, tol) ==
    /\ Abs(p[1] - Get(dominant).r) <= tol
    /\ Abs(p[2] - Get(dominant).g) <= tol
    /\ Abs(p[3] - Get(dominant).b) <= tol

\* pixel i of the k-th pass is opaque, on an edge and off the dominant
\* colour
Candidate(k, i) ==
    /\ passLog[k].before.data[i][4] >= 128
    /\ TransparentAround(passLog[k].before, i) # {}
    /\ ~MatchesDominant(passLog[k].before.data[i], LevelTolerance)

\* C24: in every pass at level L a pixel is zeroed only if it has
\* alpha >= 128, an in-bounds 8-neighbour with alpha < 128 and no match
\* with the dominant colour within 30 + 5 L; such a pixel with 4 or more
\* transparent neighbours is zeroed; every other pixel keeps its four
\* channels.
C24_PassZeroesOnlyEdgePixels ==
    CleanerRan =>
        \A k \in 1..Len(passLog) :
            \A i \in 1..Len(passLog[k].before.data) :
                /\ \/ passLog[k].after.data[i] = passLog[k].before.data[i]
                   \/ /\ passLog[k].after.data[i] = <<0, 0, 0, 0>>
                      /\ Candidate(k, i)
                /\ ( /\ Candidate(k, i)
                      /\ Cardinality(TransparentAround(passLog[k].before, i))
                             >= 4 )
                       => passLog[k].after.data[i] = <<0, 0, 0, 0>>

\* a pass zeroed a speck with 7 transparent neighbours and kept an edge
\* pixel of the dominant colour that has 4 or more of them
C24_Witness ==
    /\ CleanerRan
    /\ Len(passLog) > 0
    /\ passLog[1].before.width = 4
    /\ passLog[1].before.height = 4
    /\ passLog[1].before.data[6] = Red
    /\ passLog[1].after.data[6] = <<0, 0, 0, 0>>
    /\ Cardinality(TransparentAround(passLog[1].before, 11)) >= 4
    /\ passLog[1].after.data[11] = Gray(40)

\* C25: the dominant colour has three channels in 0..255, each a
\* multiple of 8.
C25_DominantIsColor ==
    IsSome(dominant) =>
        \A v \in {Get(dominant).r, Get(dominant).g,
                   Get(dominant).b} :
            v \in 0..255 /\ v % 8 = 0

\* C30: a pass decides on the raster it started from: a pixel none of
\* whose in-bounds 8-neighbours had alpha < 128 at the start of the pass
\* is left as it was, whatever was zeroed around it during the pass.
C30_PassReadsItsInput ==
    CleanerRan =>
        \A k \in 1..Len(passLog) :
            \A i \in 1..Len(passLog[k].before.data) :
                TransparentAround(passLog[k].before, i) = {}
                    => passLog[k].after.data[i] = passLog[k].before.data[i]

\* the first pass zeroed pixel 2 and kept its neighbour pixel 3, which
\* had no transparent neighbour before the pass and was zeroed by the next
C30_Witness ==
    /\ CleanerRan
    /\ Len(passLog) >= 2
    /\ passLog[1].before.data[2] = Gray(160)
    /\ passLog[1].after.data[2] = <<0, 0, 0, 0>>
    /\ TransparentAround(passLog[1].before, 3) = {}
    /\ passLog[1].after.data[3] = passLog[1].before.data[3]
    /\ passLog[2].after.data[3] = <<0, 0, 0, 0>>

\* indices of the pixels of the centre sample region
CentreRegion(img) ==
    LET n == IF img.width < img.height THEN img.width ELSE img.height
        t == n \div 10
        size == IF t > 10 THEN 10 ELSE t
        q == n \div 4
        csize == IF 2 * size < q THEN 2 * size ELSE q
        cx == (img.width - csize) \div 2
        cy == (img.height - csize) \div 2
    IN  {y * img.width + x + 1 : x \in cx..(cx + csize - 1),
                                y \in cy..(cy + csize - 1)}

RemovalTolerance ==
    IF options.colorTolerance = None THEN 30 ELSE Get(options.colorTolerance)

AutoDetected == AfterRemove /\ detectorRan /\ IsSome(detected)

\* pixel i of the input does not match the detected colour and is in the
\* output with its R, G, B and alpha (255 without an alpha channel)
KeptOffColour(i) ==
    /\ ~WithinTolerance(input.data[i],
                        <<Get(detected).r, Get(detected).g, Get(detected).b>>,
                        RemovalTolerance)
    /\ noBackground.data[i] =
           IF input.channels = 4 THEN input.data[i]
           ELSE Append(input.data[i], 255)

\* C28: when the background colour was auto-detected and the removal
\* tolerance is at most 30, some pixel of the centre sample region does
\* not match the detected colour and is in the output unchanged.
C28_AutoRemovalKeepsCentre ==
    (AutoDetected /\ RemovalTolerance <= 30) =>
        \E i \in CentreRegion(input) : KeptOffColour(i)

\* twelve of the sixteen centre pixels were of the detected colour and
\* cleared, the other four kept
C28_Witness ==
    /\ AutoDetected
    /\ RemovalTolerance = 30
    /\ Cardinality({i \in CentreRegion(input) :
                       noBackground.data[i] = <<0, 0, 0, 0>>}) = 12
    /\ Cardinality({i \in CentreRegion(input) : KeptOffColour(i)}) = 4

\* every palette colour was traced and none of the traces failed
AllTraced == pc = "done" /\ Len(traces) = Len(colors)

\* masks of the traces in which pixel i is marked 0
LayersOf(i) == {k \in 1..Len(traces) : traces[k].mask.data[i] = <<0>>}

\* C29: every pixel with alpha >= 128 of the traced raster is within the
\* tolerance of some palette colour, and once every colour is traced it is
\* marked 0 in the mask of at least one of them.
C29_EveryOpaquePixelInSomeMask ==
    AfterExtract =>
        LET src == EnsureAlpha(upscaled.buffer)
        IN  \A i \in 1..Len(src.data) :
                src.data[i][4] >= 128 =>
                    /\ \E k \in 1..Len(colors) :
                           WithinTolerance(src.data[i],
                               <<colors[k].r, colors[k].g, colors[k].b>>,
                               PaletteTolerance)
                    /\ AllTraced => LayersOf(i) # {}

\* a grey 55 pixel that is no palette colour and is marked 0 in the masks
\* of both grey 40 and grey 70
C29_Witness ==
    /\ AllTraced
    /\ Len(colors) = 2
    /\ \E i \in 1..Len(upscaled.buffer.data) :
           /\ upscaled.buffer.data[i] = Gray(55)
           /\ LayersOf(i) = {1, 2}

--------------------------------------------------------------------------
(* Buffer ownership between the stages                                     *)

\* C26: no stage returns the buffer object it received: the outputs of
\* removeBackground, cleanupGradientEdges, trimAlpha and upscaleForTracing
\* are each a different object from the stage's input, pass-through cases
\* included.
C26_StagesReturnFreshBuffers ==
    /\ AfterRemove => ident.noBackground # ident.imageBuffer
    /\ CleanerRan => ident.cleanedImage # ident.noBackground
    /\ AfterTrim => ident.trimmed # ident.cleanedImage
    /\ AfterUpscale => ident.processBuffer # ident.trimmed

--------------------------------------------------------------------------
(* Input errors                                                            *)

InputError == source.state # "ok"

\* C22: an input error (missing or undecodable image) is raised before any
\* pipeline stage starts, for a file path and for a byte buffer alike:
\* removeBackground and every later stage are never entered.
C22_InputErrorBeforeAnyStage ==
    InputError => entered = <<>>

--------------------------------------------------------------------------
(* Configuration precedence                                                *)

BothMerged == cfg.step \in {"merged", "resolved"}

\* the option that sets a setting on the command line, if there is one
OptionFor(k) == IF k \in OptionNames THEN cfg.options[k] ELSE None

\* the value of key k of an object, undefined (None) when it has no such key
Prop(obj, k) == IF k \in DOMAIN obj THEN obj[k] ELSE None
Section(o) == IF IsSome(o) THEN Get(o) ELSE EmptyObject

\* CLI value if the option was given, otherwise the file's value if the
\* file sets it, otherwise the default
Expected(k, optionValue, ofFile, ofDefaults) ==
    IF IsSome(optionValue) THEN optionValue
    ELSE IF k \in DOMAIN ofFile THEN ofFile[k]
    ELSE Prop(ofDefaults, k)

\* path settings are compared as the places they name
Place(v) == IF IsSome(v) THEN Some(Resolve(Get(v))) ELSE v

\* C27: after both merges every setting, each field of social and padding
\* included, has the CLI value if its option was given, otherwise the
\* config-file value if the file sets it, otherwise the default; a
\* social.tagline of the file survives when only --title is given.
C27_PrecedenceDefaultsFileCli ==
    BothMerged =>
        /\ \A k \in {"input", "inputWide", "output"} :
               Place(Prop(cfg.config.top, k)) =
                   Place(Expected(k, OptionFor(k), cfg.fileConfig.top,
                                  defaultConfig.top))
        /\ \A k \in {"background", "theme"} :
               Prop(cfg.config.top, k) =
                   Expected(k, OptionFor(k), cfg.fileConfig.top,
                            defaultConfig.top)
        /\ \A k \in SocialKeys :
               Prop(Get(cfg.config.social), k) =
                   Expected(k, OptionFor(k), Section(cfg.fileConfig.social),
                            Get(defaultConfig.social))
        /\ \A k \in PaddingKeys :
               Prop(Get(cfg.config.padding), k) =
                   Expected(k, None, Section(cfg.fileConfig.padding),
                            Get(defaultConfig.padding))

--------------------------------------------------------------------------
(* Concurrent conversions                                                  *)

RECURSIVE AloneCollect(_, _, _, _)
\* the fragments and the viewBox a conversion running alone collects for
\* the palette cs from the tracer's answers tr[k..]
AloneCollect(cs, tr, k, acc) ==
    IF k > Len(tr) THEN acc
    ELSE LET pathData == extractPathFromSvg(tr[k].svg)
         IN  AloneCollect(cs, tr, k + 1,
                 IF hasPathData(pathData)
                 THEN [paths |-> pushPath(acc.paths, cs[k], Get(pathData)),
                       viewBox |-> recordViewBox(acc.viewBox, tr[k].svg)]
                 ELSE acc)

\* what convertImageToSvg run alone does with the image and the options of
\* activation f, given the answers the tracer gave f: the raster and the
\* palette it traces and the document it returns
AloneRun(f) ==
    LET rb == removeBackground(f.input, f.options).out
        cl == IF cleanupEnabled(f.options)
              THEN cleanupGradientEdges(rb, cleanupPassesOf(f.options),
                                        gradientToleranceOf(f.options))
              ELSE rb
        up == upscaleForTracing(trimAlpha(cl), upscaleOf(f.options))
        cs == extractUniqueColors(up.buffer, paletteToleranceOf(f.options))
        got == AloneCollect(cs, f.traces, 1,
                            [paths |-> <<>>, viewBox |-> None])
    IN  [buffer |-> up.buffer,
         colors |-> cs,
         document |->
             IF Len(cs) = 0 \/ Len(got.paths) = 0 \/ ~IsSome(got.viewBox)
             THEN EmptyDocument(up.originalWidth, up.originalHeight)
             ELSE ComposedDocument(up.originalWidth, up.originalHeight,
                                   Get(got.viewBox), got.paths)]

\* activation f traced the masks it traces alone and returned the document
\* it returns alone
AsAlone(f) ==
    LET alone == AloneRun(f)
    IN  /\ Len(f.traces) = Len(alone.colors)
        /\ \A k \in 1..Len(f.traces) :
               f.traces[k].mask =
                   createColorMask(alone.buffer, alone.colors[k],
                                   paletteToleranceOf(f.options))
        /\ f.result = Some(alone.document)

\* C21: of two conversions of different images interleaved at their
\* awaits, each one that returns a document returns exactly the document
\* it returns when run alone.
C21_ConcurrentAsAlone ==
    IsSome(parked) =>
        \A f \in {thisFrame, Get(parked)} : f.pc = "done" => AsAlone(f)

\* one conversion returned a document with fragments while the other one
\* was suspended inside its colour loop, holding a fragment of its own
C21_Witness ==
    /\ IsSome(parked)
    /\ pc = "done"
    /\ Get(result).paths # <<>>
    /\ input # Get(parked).input
    /\ Get(parked).pc = "trace"
    /\ Get(parked).colorIdx = 1
    /\ Len(Get(parked).paths) = 1
    /\ Get(parked).paths[1] \notin {Get(result).paths[i] :
                                      i \in 1..Len(Get(result).paths)}

====
